---- MODULE Spec2Model ----
(***************************************************************************)
(* Task execution pipeline of the chat-analysis service: the scheduler     *)
(* (TaskScheduler, src/unnamed/part_001), the report/task store            *)
(* (DatabaseManager, src/utils/database.js), the manual execute endpoint   *)
(* (src/routes/index.js) and the LLM gateway's retry loop                  *)
(* (src/services/llmService.js).                                           *)
(*                                                                         *)
(* Node runs one callback at a time; a handler can be interleaved with     *)
(* other handlers only where it awaits.  Every action below is one such    *)
(* stretch of a handler (or a finer cut of it, which only adds             *)
(* interleavings).                                                         *)
(***************************************************************************)
EXTENDS Integers, Sequences, FiniteSets

\* ---------------------------------------------------------------- bounds
MaxTasks == 1      \* task ids 1..MaxTasks exist in the task store at start
MaxRooms == 2      \* a task lists 1..MaxRooms chat rooms
MaxRuns  == 2      \* pipeline invocations (timer or manual) per behaviour
MaxDrops == 1      \* dropped timer fires that are counted, per task

Tasks   == 1..MaxTasks
Rooms   == 1..MaxRooms
RunIds  == 1..MaxRuns
NoRoom  == 0       \* chatroom_name = null (task-level report)
\* A chat log's message count is kept as 0 (no message) or 1 (some messages).
Counts  == {0, 1}

VARIABLES
    isStarted,     \* TaskScheduler.isStarted
    tasks,         \* TaskScheduler.tasks: ids that hold a live cron job
    runningTasks,  \* TaskScheduler.runningTasks
    dbTasks,       \* DatabaseManager.tasks: ids of the stored tasks
    progress,      \* progress_status of every stored task
    taskRooms,     \* task.chatrooms, the room list of the tasks
    chatlogUrl,    \* whether config.chatlogUrl is set
    remote,        \* rooms the transcript service has messages for in the window
    cacheFile,     \* the local chatlog file (chatlogService.getChatlogs)
    llmDown,       \* rooms whose analysis fails on every provider attempt
    storeOk,       \* the data directory can be written (DatabaseManager.saveData)
    reports,       \* DatabaseManager.reports, by the invocation that pushed
                   \* the record; the records of one invocation in push order
    nextReportId,  \* DatabaseManager.config.nextReportId
    runs,          \* the frames of the runTaskProcess invocations
    nextRun,       \* number of invocations made so far, plus one
    dropped,       \* per task: timer fires skipped by executeTask
    clock,         \* the wall clock (Date.now()), an instant
    timeRange,     \* task.time_range of the fetch under study
    rawMsgs,       \* the messages the transcript service answers with
    fetchCall,     \* one fetchChatlogFromExternal + filterMessagesByTimeRange
    llmCall,       \* one LLMService.analyze call: its retry loop
    budgetCall,    \* one optimizePromptForTokenLimit call
    tokenCall,     \* one estimateTokenCount call
    parseCall,     \* one parseTextChatlog call
    shapeCall,     \* the response handling of one fetchChatlogFromExternal
    htmlCall,      \* the output handling of one generateChatroomReport
    cleanupCall,   \* one cleanupTaskStatus call on the stored tasks
    configCall,    \* one saveConfig call on the stored configuration
    sched,         \* the registry of TaskScheduler with its cron jobs
    kimiCall,      \* the request parameters of one callKimiAPI call
    storeCall      \* config.json and its two writers

\* What the runs read and nothing here changes.
env == <<taskRooms, chatlogUrl, remote, cacheFile, llmDown>>

\* The state of the function-level specifications; the pipeline leaves it alone.
fetchVars == <<clock, timeRange, rawMsgs, fetchCall>>

moreUnits == <<sched, kimiCall, storeCall>>

units == <<parseCall, shapeCall, htmlCall, cleanupCall, configCall, moreUnits>>

calls == <<fetchVars, llmCall, budgetCall, tokenCall, units>>

\* The state of the pipeline; the function-level specifications leave it alone.
pipeline == <<isStarted, tasks, runningTasks, dbTasks, progress, env, storeOk,
              reports, nextReportId, runs, nextRun, dropped>>

vars == <<pipeline, calls>>

\* ------------------------------------------------------------- helpers
Range(s) == {s[k] : k \in 1..Len(s)}

RECURSIVE SumCounts(_)
SumCounts(logs) ==
    IF logs = <<>> THEN 0 ELSE Head(logs).count + SumCounts(Tail(logs))

\* How many entries of a result list equal v; how many records have status v.
CountOf(s, v) == Cardinality({k \in 1..Len(s) : s[k] = v})

CountStatus(reps, v) == Cardinality({k \in 1..Len(reps) : reps[k].status = v})

\* What the local chatlog file can hold: entries for pairwise different
\* rooms, in any order, each with or without messages.
CacheOrders ==
    {s \in UNION {[1..n -> Rooms] : n \in 0..MaxRooms} :
        \A a, b \in 1..Len(s) : a # b => s[a] # s[b]}

CacheChoices ==
    {[k \in 1..Len(o) |-> [chatroom |-> o[k], count |-> c[k]]] :
        o \in CacheOrders, c \in [1..MaxRooms -> Counts]}

IdleRun ==
    [kind |-> "none", task |-> 0, pc |-> "idle", j |-> 0, chatlogs |-> <<>>,
     fromCache |-> FALSE, i |-> 0, analysis |-> "none", llm |-> <<>>,
     results |-> <<>>, succ |-> 0, fail |-> 0, overall |-> "none",
     wrote |-> "none", threw |-> FALSE, fileErrs |-> 0, log |-> <<>>]

\* ------------------------------------------------------- pure functions
\* executeTask without its re-entrancy test.
IsRunning_NoGuard(t) == FALSE

\* The re-entrancy test of executeTask.
IsRunning(t) == t \in runningTasks

\* overallStatus without its middle case: any failure makes the run failed.
OverallStatus_NoPartial(succ, fail) == IF fail = 0 THEN "success" ELSE "failed"

\* overallStatus of runTaskProcess.
OverallStatus(succ, fail) ==
    IF fail = 0 THEN "success" ELSE IF succ = 0 THEN "failed" ELSE "partial"

\* finalProgressStatus of runTaskProcess.
FinalProgress(overall) == IF overall = "success" THEN "completed" ELSE "failed"

\* DatabaseManager.updateTaskProgress: a missing task changes nothing; else
\* the field is set in memory (and saveData may then throw).
UpdateTaskProgress(p, id, status) ==
    IF id \in dbTasks THEN [p EXCEPT ![id] = status] ELSE p

\* DatabaseManager.createReport: the record is pushed (and saveData may then
\* throw).  call: which generateChatroomReport call of the run made it, 0 for
\* the task-level record.
CreateReport(reps, t, room, status, file, count, call) ==
    Append(reps, [task_id |-> t, chatroom_name |-> room, status |-> status,
                  report_file |-> file, message_count |-> count, call |-> call])

\* The local fallback of runTaskProcess: the cached logs of the task's rooms,
\* in the order of the cache file.
FilterCache(cache, rooms) ==
    SelectSeq(cache, LAMBDA e : e.chatroom \in Range(rooms))

\* LLMService.analyze as analyzeSingleChatroom sees it: no formatted message
\* gives the "no valid records" text without a provider call; else up to two
\* attempts, a1 and a2 telling whether each succeeds; when both fail the
\* synthesized failure text is returned (never an exception).
Analyze(count, a1, a2) ==
    IF count = 0 THEN "nodata"
    ELSE IF a1 \/ a2 THEN "content" ELSE "failure"

\* What one generateChatroomReport call pushes and returns.  fileOk: mkdir and
\* writeFileSync succeed; ok1: the store saves the success record; ok2: it
\* saves the failed record of the catch block.  outcome: "success" or
\* "failed" (the returned flag), or "threw" (createReport threw in the catch
\* block).
GenerateChatroomReport(reps, t, room, count, call, fileOk, ok1, ok2) ==
    IF fileOk
    THEN LET reps1 == CreateReport(reps, t, room, "success", TRUE, count, call)
         IN  IF ok1
             THEN [reports |-> reps1, pushed |-> 1, outcome |-> "success"]
             ELSE [reports |-> CreateReport(reps1, t, room, "failed", FALSE,
                                            count, call),
                   pushed  |-> 2,
                   outcome |-> IF ok2 THEN "failed" ELSE "threw"]
    ELSE [reports |-> CreateReport(reps, t, room, "failed", FALSE, count, call),
          pushed  |-> 1,
          outcome |-> IF ok2 THEN "failed" ELSE "threw"]

\* The room loop leaving at the first room whose body threw.
AfterRoom_StopOnThrow(i, n, outcome) ==
    IF outcome = "threw" \/ i >= n THEN "finish" ELSE "sleep"

\* Where the room loop of runTaskProcess goes after the body for room i of n:
\* whatever the body did (returned a success flag, a failure flag, or threw
\* into the loop's catch block), the delay follows unless i was the last room.
AfterRoom(i, n, outcome) == IF i < n THEN "sleep" ELSE "finish"

\* --------------------------------------------------------- time windows
\* An instant is [s, ms]: s * 1000 + ms milliseconds since the epoch.
DaySeconds == 86400
MaxMsgs    == 2      \* messages in one answer of the transcript service
MaxTicks   == 2      \* seconds the clock advances during one fetch

Instant(sec, ms) == [s |-> sec, ms |-> ms]

\* new Date(at.getTime() - n * 24 * 60 * 60 * 1000)
MinusDays(at, n) == [at EXCEPT !.s = at.s - n * DaySeconds]

\* a.getTime() <= b.getTime()
NotAfter(a, b) == a.s < b.s \/ (a.s = b.s /\ a.ms <= b.ms)

\* A date field of a time range is a day number, "YYYY-MM-DD"; NoDate is a
\* missing (or empty) field.
NoDate == 0

\* new Date("YYYY-MM-DD"): midnight UTC of that day.
ParseDate(d) == Instant(d * DaySeconds, 0)

\* formatDate: date.toISOString().split('T')[0], the UTC day of the instant.
FormatDate(at) == at.s \div DaySeconds

\* The fixed wire string of the all range, '2020-01-01~2030-12-31', as the
\* pair of its day numbers.
AllStart == 18262
AllEnd   == 22279

IsAll(tr) == tr.type \in {"null", "all"}

\* The switch taking the default case for every type.
RecentDays_AlwaysSeven(type) == 7

\* The days of the recent_* cases of the switch; 7 in the default case.
RecentDays(type) ==
    CASE type = "recent_1d"  -> 1
      [] type = "recent_3d"  -> 3
      [] type = "recent_7d"  -> 7
      [] type = "recent_15d" -> 15
      [] type = "recent_30d" -> 30
      [] OTHER               -> 7

\* The custom case of generateTimeParam reading only the current field names.
CustomWindow_NoLegacy(tr, now) ==
    IF tr.start_date # NoDate /\ tr.end_date # NoDate
    THEN [start |-> ParseDate(tr.start_date), end |-> ParseDate(tr.end_date)]
    ELSE [start |-> MinusDays(now, 7), end |-> now]

\* The custom case of the switch: current field names, then the legacy ones,
\* then the last seven days.
CustomWindow(tr, now) ==
    IF tr.start_date # NoDate /\ tr.end_date # NoDate
    THEN [start |-> ParseDate(tr.start_date), end |-> ParseDate(tr.end_date)]
    ELSE IF tr.startDate # NoDate /\ tr.endDate # NoDate
    THEN [start |-> ParseDate(tr.startDate), end |-> ParseDate(tr.endDate)]
    ELSE [start |-> MinusDays(now, 7), end |-> now]

\* startDate and endDate of generateTimeParam, with now = new Date().
ParamWindow(tr, now) ==
    IF tr.type = "custom" THEN CustomWindow(tr, now)
    ELSE [start |-> MinusDays(now, RecentDays(tr.type)), end |-> now]

\* generateTimeParam without its first test: every range goes to the switch.
GenerateTimeParam_NoSentinel(tr, now) ==
    <<FormatDate(ParamWindow(tr, now).start), FormatDate(ParamWindow(tr, now).end)>>

\* generateTimeParam: the string "<start>~<end>" as the pair of its days.
GenerateTimeParam(tr, now) ==
    IF IsAll(tr) THEN <<AllStart, AllEnd>>
    ELSE LET w == ParamWindow(tr, now)
         IN  <<FormatDate(w.start), FormatDate(w.end)>>

\* startDate and endDate of filterMessagesByTimeRange (its own copy of the
\* switch), with now = new Date().
FilterWindow(tr, now) ==
    IF tr.type = "custom"
    THEN IF tr.start_date # NoDate /\ tr.end_date # NoDate
         THEN [start |-> ParseDate(tr.start_date), end |-> ParseDate(tr.end_date)]
         ELSE IF tr.startDate # NoDate /\ tr.endDate # NoDate
         THEN [start |-> ParseDate(tr.startDate), end |-> ParseDate(tr.endDate)]
         ELSE [start |-> MinusDays(now, 7), end |-> now]
    ELSE [start |-> MinusDays(now, RecentDays(tr.type)), end |-> now]

\* ----------------------------------------------------------- timestamps
\* A JavaScript number n >= 0 is kept as [hi, lo] with n = hi * 1000 + lo.
RECURSIVE DigitsNat(_)
DigitsNat(n) == IF n < 10 THEN 1 ELSE 1 + DigitsNat(n \div 10)

\* n.toString().length
NumLength(n) == IF n.hi = 0 THEN DigitsNat(n.lo) ELSE DigitsNat(n.hi) + 3

\* n * 1000
Times1000(n) == [hi |-> n.hi * 1000 + n.lo, lo |-> 0]

\* The number n read as milliseconds since the epoch.
AsInstant(n) == Instant(n.hi, n.lo)

\* The values a message's time field arrives with.  `at` is the instant the
\* sender meant; a number carries it in num, a date string in its text, of
\* which len is the length.
SecondsStamp(at) ==
    [kind |-> "num", num |-> [hi |-> at.s \div 1000, lo |-> at.s % 1000],
     len |-> 0, at |-> Instant(at.s, 0)]

MillisStamp(at) ==
    [kind |-> "num", num |-> [hi |-> at.s, lo |-> at.ms], len |-> 0, at |-> at]

DateString(at, len) ==
    [kind |-> "str", num |-> [hi |-> 0, lo |-> 0], len |-> len, at |-> at]

\* value.toString().length
StampLength(v) == IF v.kind = "num" THEN NumLength(v.num) ELSE v.len

\* The field mapping of fetchChatlogFromExternal:
\* timestamp: msg.timestamp || msg.time || msg.createTime || Date.now().
Standardize(msg, now) ==
    [field |-> "timestamp",
     val   |-> IF msg.field = "none" THEN MillisStamp(now) ELSE msg.val]

\* messageTime of filterMessagesByTimeRange: [ok, at]; ok is FALSE when the
\* message has no time field or the value is NaN.
MessageTime(msg) ==
    LET nan == [ok |-> FALSE, at |-> Instant(0, 0)]
        v   == msg.val
    IN  IF msg.field = "timestamp"
        THEN IF StampLength(v) = 10
             THEN IF v.kind = "num"
                  THEN [ok |-> TRUE, at |-> AsInstant(Times1000(v.num))]
                  ELSE nan
             ELSE IF v.kind = "num"
                  THEN [ok |-> TRUE, at |-> AsInstant(v.num)]
                  ELSE nan
        ELSE IF msg.field \in {"time", "createTime"}
        THEN IF v.kind = "num"
             THEN [ok |-> TRUE, at |-> AsInstant(v.num)]
             ELSE [ok |-> TRUE, at |-> v.at]
        ELSE nan

\* The filter callback letting a message without a usable time through.
Classify_KeepInvalid(msg, w) ==
    LET t == MessageTime(msg)
    IN  IF ~t.ok THEN "kept"
        ELSE IF NotAfter(w.start, t.at) /\ NotAfter(t.at, w.end)
        THEN "kept" ELSE "out"

\* What the filter callback does with one message.
Classify(msg, w) ==
    LET t == MessageTime(msg)
    IN  IF ~t.ok THEN "invalid"
        ELSE IF NotAfter(w.start, t.at) /\ NotAfter(t.at, w.end)
        THEN "kept" ELSE "out"

\* filterMessagesByTimeRange with now = new Date().
FilterMessagesByTimeRange(messages, tr, now) ==
    IF IsAll(tr)
    THEN [kept |-> messages, invalidTimeCount |-> 0, outOfRangeCount |-> 0]
    ELSE LET w      == FilterWindow(tr, now)
             cls(c) == {k \in 1..Len(messages) : Classify(messages[k], w) = c}
         IN  [kept |-> SelectSeq(messages, LAMBDA m : Classify(m, w) = "kept"),
              invalidTimeCount |-> Cardinality(cls("invalid")),
              outOfRangeCount  |-> Cardinality(cls("out"))]

\* ------------------------------------------------- inputs of one fetch
\* 2025-07-15 12:00:00.000 and 23:59:59.500 UTC.
Clocks == {Instant(20284 * DaySeconds + 43200, 0),
           Instant(20285 * DaySeconds - 1, 500)}

\* The days a custom range names: 2025-07-01 and 2025-07-18.
FirstDay == 20270
LastDay  == 20287

Custom(sd, ed, lsd, led) ==
    [type |-> "custom", start_date |-> sd, end_date |-> ed,
     startDate |-> lsd, endDate |-> led]

TimeRanges ==
    {[type |-> t, start_date |-> NoDate, end_date |-> NoDate,
      startDate |-> NoDate, endDate |-> NoDate] :
        t \in {"null", "all", "recent_1d", "recent_3d", "recent_7d",
              "recent_15d", "recent_30d", "weekly"}}
    \cup {Custom(sd, ed, lsd, led) :
            sd \in {NoDate, FirstDay}, ed \in {NoDate, LastDay},
            lsd \in {NoDate, FirstDay}, led \in {NoDate, LastDay}}

\* When messages were sent: 2025-07-15 00:00:00, 2025-07-15 11:06:40 and
\* 2025-07-01 00:01:40 UTC.
MsgInstants == {Instant(20284 * DaySeconds, 0),
                Instant(20284 * DaySeconds + 40000, 0),
                Instant(20270 * DaySeconds + 100, 0)}

\* The text of a date string: "YYYY-MM-DD" for a midnight, else the 24
\* characters of an ISO string.
DateStringOf(at) ==
    DateString(at, IF at.s % DaySeconds = 0 /\ at.ms = 0 THEN 10 ELSE 24)

MsgChoices ==
    {[field |-> "timestamp", val |-> SecondsStamp(at)] : at \in MsgInstants}
    \cup {[field |-> "timestamp", val |-> MillisStamp(at)] : at \in MsgInstants}
    \cup {[field |-> f, val |-> DateStringOf(at)] :
            f \in {"timestamp", "time"}, at \in MsgInstants}
    \cup {[field |-> "none", val |-> MillisStamp(Instant(0, 0))]}

MsgSeqs == UNION {[1..n -> MsgChoices] : n \in 0..MaxMsgs}

NoWindow == [start |-> Instant(0, 0), end |-> Instant(0, 0)]

IdleFetch ==
    [pc |-> "idle", window |-> NoWindow, timeParam |-> <<0, 0>>, ticks |-> 0,
     messages |-> <<>>, filterWindow |-> NoWindow, kept |-> <<>>,
     invalidTimeCount |-> 0, outOfRangeCount |-> 0,
     cache |-> <<>>, analyzed |-> <<>>, source |-> "none"]

\* The day the messages of MsgInstants were mostly sent: 2025-07-15.
MessageDay == 20284

\* The ranges of a gathering: a recent one, the whole history, and custom
\* ranges ending on the messages' day (current field names) and later
\* (legacy names).
GatherRanges ==
    {[type |-> t, start_date |-> NoDate, end_date |-> NoDate,
      startDate |-> NoDate, endDate |-> NoDate] : t \in {"all", "recent_1d"}}
    \cup {Custom(FirstDay, MessageDay, NoDate, NoDate),
          Custom(NoDate, NoDate, FirstDay, LastDay)}

\* The messages of the task's room in the local cache file.
CacheSeqs == UNION {[1..n -> MsgChoices] : n \in 0..1}

FetchIdle ==
    /\ clock = Instant(20284 * DaySeconds + 43200, 0)
    /\ timeRange = [type |-> "all", start_date |-> NoDate, end_date |-> NoDate,
                    startDate |-> NoDate, endDate |-> NoDate]
    /\ rawMsgs = <<>>
    /\ fetchCall = IdleFetch

\* ------------------------------------------------ the retry loop of analyze
MaxRetries == 2
RetryDelay == 2000

\* A model id is a sequence of parts: a name, then, when the id holds a
\* dash, "-" and what follows it.  The letter case of a name is part of it.
\* The empty sequence is the empty string.
LlmModels ==
    {<<"deepseek", "-", "chat">>, <<"deepseek", "-", "reasoner">>,
     <<"gemini", "-", "2.5-pro">>, <<"moonshot", "-", "v1-8k">>,
     <<"kimi", "-", "k2-0711-preview">>,
     <<"deepseek">>, <<"DeepSeek">>, <<"gemini">>, <<"GEMINI">>,
     <<"kimi">>, <<"Kimi">>,
     <<"gpt", "-", "4">>, <<"DeepSeek", "-", "chat">>, <<"moonshot">>,
     <<"deepseekchat">>, <<>>}

\* llmModel.startsWith(prefix)
StartsWith(llmModel, prefix) ==
    /\ Len(llmModel) >= Len(prefix)
    /\ SubSeq(llmModel, 1, Len(prefix)) = prefix

LowerPart(part) ==
    CASE part = "DeepSeek" -> "deepseek"
      [] part = "GEMINI"   -> "gemini"
      [] part = "Kimi"     -> "kimi"
      [] OTHER             -> part

\* The mutant of ToLowerCase: the id as it is.
ToLowerCase_Same(llmModel) == llmModel

\* llmModel.toLowerCase()
ToLowerCase(llmModel) == [i \in 1..Len(llmModel) |-> LowerPart(llmModel[i])]

\* The calls of provider functions one pass of the try block makes for a
\* model id, each with the model id it passes on: the prefix tests, then
\* the switch on the lower-case id; no call when the default branch throws.
Dispatch(llmModel) ==
    IF StartsWith(llmModel, <<"deepseek", "-">>)
    THEN <<[provider |-> "deepseek", model |-> llmModel]>>
    ELSE IF StartsWith(llmModel, <<"gemini", "-">>)
    THEN <<[provider |-> "gemini", model |-> llmModel]>>
    ELSE IF    StartsWith(llmModel, <<"moonshot", "-">>)
            \/ StartsWith(llmModel, <<"kimi", "-">>)
    THEN <<[provider |-> "kimi", model |-> llmModel]>>
    ELSE CASE ToLowerCase(llmModel) = <<"deepseek">> ->
                <<[provider |-> "deepseek", model |-> <<"deepseek", "-", "chat">>]>>
           [] ToLowerCase(llmModel) = <<"gemini">> ->
                <<[provider |-> "gemini", model |-> <<"gemini", "-", "2.5-pro">>]>>
           [] ToLowerCase(llmModel) = <<"kimi">> ->
                <<[provider |-> "kimi", model |-> <<"moonshot", "-", "v1-8k">>]>>
           [] OTHER -> <<>>

\* The provider a model id goes to ("none": the default branch).
Provider(llmModel) ==
    IF Dispatch(llmModel) = <<>> THEN "none" ELSE Dispatch(llmModel)[1].provider

\* How a request to a provider can end: an answer, or one of the failures.
HttpOutcomes ==
    {"ok", "401", "429", "413", "timeout", "unreachable", "malformed"}

\* The loop waiting after every failed attempt, the last one included.
AfterFailure_AlwaysWait(attempt) == "wait"

\* The catch block of the loop: wait and retry while attempts are left.
AfterFailure(attempt) == IF attempt < MaxRetries THEN "wait" ELSE "end"

\* waitTime of the catch block.
WaitTime(attempt) == attempt * RetryDelay

\* analyze rethrowing the last error when every attempt failed.
LoopResult_Rethrow(result, lastError) ==
    IF result = "" /\ lastError # "none"
    THEN [threw |-> TRUE, text |-> "", error |-> lastError]
    ELSE [threw |-> FALSE, text |-> result, error |-> "none"]

\* What analyze returns after the loop: the answer, or the synthesized
\* failure text with the message of the last error.
LoopResult(result, lastError) ==
    IF result = "" /\ lastError # "none"
    THEN [threw |-> FALSE, text |-> "failure", error |-> lastError]
    ELSE [threw |-> FALSE, text |-> result, error |-> "none"]

IdleLlmCall ==
    [pc |-> "idle", llmModel |-> <<"deepseek", "-", "chat">>, hasKey |-> TRUE,
     attempt |-> 0,
     result |-> "", lastError |-> "none", requests |-> 0, events |-> <<>>,
     returned |-> [threw |-> FALSE, text |-> "", error |-> "none"]]

LlmIdle == llmCall = IdleLlmCall

\* ------------------------------------------------------ token estimate
MaxTextLen == 4      \* characters of an estimated text

\* A text is a sequence of characters, each known by its class: a CJK
\* ideograph (\u4e00-\u9fff), a Latin letter, or anything else.
CharClasses == {"cjk", "lat", "oth"}

Texts == UNION {[1..n -> CharClasses] : n \in 0..MaxTextLen}

\* (text.match(/[\u4e00-\u9fff]/g) || []).length
ChineseChars(text) == Cardinality({k \in 1..Len(text) : text[k] = "cjk"})

\* (text.match(/[a-zA-Z]+/g) || []).length: the maximal runs of letters.
EnglishWords(text) ==
    Cardinality({k \in 1..Len(text) :
                    text[k] = "lat" /\ (k = 1 \/ text[k - 1] # "lat")})

\* text.replace(/[a-zA-Z]/g, '')
WithoutLetters(text) == SelectSeq(text, LAMBDA c : c # "lat")

\* Math.ceil(n / 2)
CeilHalf(n) == (n + 1) \div 2

\* estimateTokenCount.
EstimateTokenCount(text) ==
    IF text = <<>> THEN 0
    ELSE LET chineseChars == ChineseChars(text)
             englishWords == EnglishWords(text)
             symbols      == Len(text) - chineseChars - Len(WithoutLetters(text))
         IN  CeilHalf(3 * chineseChars + 2 * englishWords + symbols)

IdleTokenCall == [pc |-> "idle", text |-> <<>>, tokens |-> 0]

TokenIdle == tokenCall = IdleTokenCall

\* ------------------------------------------------------- budget fitting
\* A text of the prompt is known by its weight: twice the sum
\* 1.5 * chineseChars + englishWords + 0.5 * symbols that estimateTokenCount
\* rounds up, which adds up over texts joined by '\n'.
MaxBlocks == 3       \* rooms in the chatlogs of one analyze call

ContextLimit == 64000
TokenBuffer  == 500
MinMessages  == 10

\* The weight of the template of buildAnalysisPrompt without its parameters,
\* of the two summary lines, and of a header line '\n=== <room> ==='.
FrameWeight            == 435
SummaryWeight          == 26
OptimizedSummaryWeight == 41
HeaderWeight           == 10

\* estimateTokenCount of a text of weight w.
TokensOfWeight(w) == CeilHalf(w)

Max(a, b) == IF a >= b THEN a ELSE b
Min(a, b) == IF a <= b THEN a ELSE b

\* A system prompt: whether it has text, its weight, and the weight of the
\* words simplifySystemPrompt removes from it.
NoPrompt == [given |-> FALSE, weight |-> 0, removable |-> 0]

\* getBaseSystemPrompt.
BasePrompt == [given |-> TRUE, weight |-> 2437, removable |-> 8]

\* The prompts a task's template gives: none, a short one, one of 13500 and
\* one of 50000 tokens.
UserPrompts ==
    {NoPrompt,
     [given |-> TRUE, weight |-> 400, removable |-> 8],
     [given |-> TRUE, weight |-> 27000, removable |-> 1000],
     [given |-> TRUE, weight |-> 100000, removable |-> 0]}

\* getFinalSystemPrompt.
GetFinalSystemPrompt(userSystemPrompt, defaultSystemPrompt) ==
    IF userSystemPrompt.given THEN userSystemPrompt ELSE defaultSystemPrompt

\* simplifySystemPrompt.
SimplifySystemPrompt(prompt) ==
    [prompt EXCEPT !.weight = @ - prompt.removable, !.removable = 0]

\* The messages of one room as analyze gets them: n messages with text, each
\* of weight `each` once formatted as a line.
ChatlogChoices ==
    {[n |-> 0,    each |-> 0],
     [n |-> 20,   each |-> 40],
     [n |-> 50,   each |-> 800],
     [n |-> 30,   each |-> 1600],
     [n |-> 1,    each |-> 4000],
     [n |-> 12,   each |-> 10000],
     [n |-> 2000, each |-> 60],
     [n |-> 5,    each |-> 24000]}

ChatlogSeqs == UNION {[1..k -> ChatlogChoices] : k \in 0..MaxBlocks}

\* formatChatMessages: a header line and the message lines of every room
\* that has messages, in the order of the rooms.
FormatChatMessages(chatlogs) ==
    LET blocks == [k \in 1..Len(chatlogs) |->
                     [room |-> k, header |-> HeaderWeight,
                      n |-> chatlogs[k].n, each |-> chatlogs[k].each]]
    IN  SelectSeq(blocks, LAMBDA b : b.n > 0)

RECURSIVE MessagesWeight(_)
MessagesWeight(blocks) ==
    IF blocks = <<>> THEN 0
    ELSE Head(blocks).header + Head(blocks).n * Head(blocks).each
            + MessagesWeight(Tail(blocks))

RECURSIVE MessageCount(_)
MessageCount(blocks) ==
    IF blocks = <<>> THEN 0 ELSE Head(blocks).n + MessageCount(Tail(blocks))

\* buildAnalysisPrompt: the weight of the prompt it returns.
BuildAnalysisPrompt(blocks, fullPrompt, summaryWeight) ==
    fullPrompt.weight + FrameWeight + summaryWeight + MessagesWeight(blocks)

\* chatroom.tokens: the estimate of the header and the messages joined.
BlockTokens(b) == TokensOfWeight(b.header + b.n * b.each)

\* densityA >= densityB, for density = messages.length / tokens.
DenserOrEqual(a, b) == a.n * BlockTokens(b) >= b.n * BlockTokens(a)

\* chatrooms.sort by descending density; the sort is stable.
RECURSIVE InsertByDensity(_, _)
InsertByDensity(sorted, b) ==
    IF sorted = <<>> THEN <<b>>
    ELSE IF DenserOrEqual(Head(sorted), b)
    THEN <<Head(sorted)>> \o InsertByDensity(Tail(sorted), b)
    ELSE <<b>> \o sorted

RECURSIVE SortByDensity(_)
SortByDensity(blocks) ==
    IF blocks = <<>> THEN <<>>
    ELSE InsertByDensity(SortByDensity(SubSeq(blocks, 1, Len(blocks) - 1)),
                         blocks[Len(blocks)])

\* The selection loop taking every room, whatever is left of the budget.
SelectWhole_NoLimit(sorted, usedTokens, availableTokens) == sorted

\* The selection loop: a room is taken when it still fits.
RECURSIVE SelectWhole(_, _, _)
SelectWhole(sorted, usedTokens, availableTokens) ==
    IF sorted = <<>> THEN <<>>
    ELSE LET b == Head(sorted)
         IN  IF usedTokens + BlockTokens(b) <= availableTokens
             THEN <<b>> \o SelectWhole(Tail(sorted), usedTokens + BlockTokens(b),
                                       availableTokens)
             ELSE SelectWhole(Tail(sorted), usedTokens, availableTokens)

\* maxMessages: Math.floor(n * (availableTokens / tokens) * 0.8).
MaxMessages(b, availableTokens) ==
    (b.n * availableTokens * 8) \div (BlockTokens(b) * 10)

\* messages.slice(0, Math.max(10, maxMessages)).length
KeptOfTruncated(b, availableTokens) ==
    Min(b.n, Max(MinMessages, MaxMessages(b, availableTokens)))

\* optimizeMessagesPreservingChatrooms.
OptimizeMessagesPreservingChatrooms(blocks, availableTokens) ==
    LET sorted   == SortByDensity(blocks)
        selected == SelectWhole(sorted, 0, availableTokens)
    IN  IF selected = <<>> /\ sorted # <<>>
        THEN <<[sorted[1] EXCEPT !.n = KeptOfTruncated(sorted[1], availableTokens)]>>
        ELSE selected

\* optimizePromptForTokenLimit.
OptimizePromptForTokenLimit(blocks, systemPrompt, maxTokens) ==
    LET systemPromptTokens   == TokensOfWeight(systemPrompt.weight)
        availableForMessages == maxTokens - systemPromptTokens - TokenBuffer
        finalSystemPrompt    == IF 10 * systemPromptTokens > 3 * maxTokens
                                THEN SimplifySystemPrompt(systemPrompt)
                                ELSE systemPrompt
        optimizedMessages    == OptimizeMessagesPreservingChatrooms(
                                    blocks, availableForMessages)
    IN  [prompt       |-> BuildAnalysisPrompt(optimizedMessages, finalSystemPrompt,
                                              OptimizedSummaryWeight),
         messageCount |-> MessageCount(optimizedMessages),
         available    |-> availableForMessages,
         sorted       |-> SortByDensity(blocks),
         optimized    |-> optimizedMessages]

\* outputTokens and maxInputTokens of analyze.
OutputTokens(llmModel) == IF llmModel = "deepseek-reasoner" THEN 16000 ELSE 20000

MaxInputTokens(llmModel) == ContextLimit - OutputTokens(llmModel)

BudgetModels == {"deepseek-chat", "deepseek-reasoner"}

IdleBudgetCall ==
    [pc |-> "idle", llmModel |-> "deepseek-chat", prompt |-> NoPrompt,
     chatlogs |-> <<>>, formatted |-> <<>>, finalTokens |-> 0,
     maxInputTokens |-> 0, available |-> 0, sorted |-> <<>>,
     optimized |-> <<>>, promptTokens |-> 0, messageCount |-> 0]

BudgetIdle == budgetCall = IdleBudgetCall

\* ------------------------------------------------------ transcript text
MaxLines == 4       \* lines of a transcript text

\* A line of the text after trim(): one that the three header patterns
\* '<sender> <time>' match, another line with text, or an empty one.  The
\* text of line k is known by k.
LineKinds == {"header", "text", "blank"}

TranscriptTexts == UNION {[1..n -> LineKinds] : n \in 0..MaxLines}

\* timeMatch1 || timeMatch2 || timeMatch3
IsHeaderLine(line) == line = "header"

\* The flush of the open message: it is pushed when its content is not empty.
\* A message is [header, content]: the line that opened it and its content
\* lines, which are joined with '\n'.
FlushMessage(messages, currentMessage) ==
    IF currentMessage.open /\ currentMessage.content # <<>>
    THEN Append(messages, [header  |-> currentMessage.header,
                           content |-> currentMessage.content])
    ELSE messages

NoMessage == [open |-> FALSE, header |-> 0, content |-> <<>>]

IdleParseCall ==
    [pc |-> "idle", lines |-> <<>>, i |-> 0, currentMessage |-> NoMessage,
     messages |-> <<>>]

ParseIdle == parseCall = IdleParseCall

\* ------------------------------------------------------- response shapes
\* A response body of the chatlog service.  A message is "m1", "m2" or
\* "blank" (a message whose content is empty or white space).  A value that
\* is not a string is an array, an object with the fields data, messages
\* and records (each an array or not), or anything else (a number, null).
\* A string is described by what the code asks of it: whether it starts as
\* an HTML page, whether one of its first lines holds a time of day, what
\* parseTextChatlog makes of it, and what JSON.parse makes of it.
MessageItems == {"m1", "m2", "blank"}

Arrays == {<<>>, <<"m1">>, <<"m2", "blank">>}

NotArray == [isArray |-> FALSE, items |-> <<>>]

AnArray(items) == [isArray |-> TRUE, items |-> items]

FieldValues == {NotArray} \cup {AnArray(a) : a \in Arrays}

OtherValue ==
    [type |-> "other", items |-> <<>>, data |-> NotArray,
     messages |-> NotArray, records |-> NotArray]

ArrayValues == {[OtherValue EXCEPT !.type = "array", !.items = a] : a \in Arrays}

ObjectValues ==
    {[OtherValue EXCEPT !.type = "object", !.data = d, !.messages = m,
                        !.records = r] :
        d \in FieldValues, m \in FieldValues, r \in FieldValues}

PlainValues == ArrayValues \cup ObjectValues \cup {OtherValue}

\* What parseTextChatlog returns for a text: messages with content.
ParsedTexts == {<<>>, <<"m1">>, <<"m1", "m2">>}

NoText ==
    [html |-> FALSE, timePattern |-> FALSE, parsedText |-> <<>>,
     jsonValid |-> FALSE, json |-> OtherValue,
     secondOk |-> FALSE, secondParsed |-> <<>>]

\* An HTML page, with the answer to the second request in text format: a
\* failure or no string, or a text and what parseTextChatlog makes of it.
HtmlPages ==
    {[NoText EXCEPT !.html = TRUE]}
    \cup {[NoText EXCEPT !.html = TRUE, !.secondOk = TRUE,
                         !.secondParsed = p] : p \in ParsedTexts}

OtherTexts ==
    {[NoText EXCEPT !.timePattern = t, !.parsedText = p] :
        t \in BOOLEAN, p \in ParsedTexts}
    \cup {[NoText EXCEPT !.timePattern = t, !.parsedText = p,
                         !.jsonValid = TRUE, !.json = v] :
            t \in BOOLEAN, p \in ParsedTexts, v \in PlainValues}

Responses ==
    {[isString |-> FALSE, value |-> v, text |-> NoText] : v \in PlainValues}
    \cup {[isString |-> TRUE, value |-> OtherValue, text |-> t] :
            t \in HtmlPages \cup OtherTexts}

\* data.trim().startsWith('<!DOCTYPE') || data.trim().startsWith('<html')
IsHtmlPage(text) == text.html

IsTextChatlogFormat(text) == text.timePattern

NullResult == [isNull |-> TRUE, messages |-> <<>>]

Found(messages) == [isNull |-> FALSE, messages |-> messages]

\* The mutant of ExtractMessages: the wrapper keys in the opposite order.
ExtractMessages_RecordsFirst(data) ==
    IF data.type = "array" THEN data.items
    ELSE IF data.type = "object"
         THEN IF data.records.isArray THEN data.records.items
              ELSE IF data.messages.isArray THEN data.messages.items
              ELSE IF data.data.isArray THEN data.data.items
              ELSE <<>>
         ELSE <<>>

\* Array.isArray(data), else the object's data, messages, records, else [].
ExtractMessages(data) ==
    IF data.type = "array" THEN data.items
    ELSE IF data.type = "object"
         THEN IF data.data.isArray THEN data.data.items
              ELSE IF data.messages.isArray THEN data.messages.items
              ELSE IF data.records.isArray THEN data.records.items
              ELSE <<>>
         ELSE <<>>

IsNotBlank(msg) == msg # "blank"

\* messages.map(...).filter(msg => msg.content && msg.content.trim())
StandardMessages(messages) == SelectSeq(messages, IsNotBlank)

IdleShapeCall ==
    [pc |-> "idle",
     response |-> [isString |-> FALSE, value |-> OtherValue, text |-> NoText],
     data |-> OtherValue, messages |-> <<>>, result |-> NullResult]

ShapeIdle == shapeCall = IdleShapeCall

\* --------------------------------------------------------- report output
\* A model output, a cleaned output and a report are texts made of pieces:
\*   ws       white space with a line break
\*   prose    a sentence without '<', longer than 10 characters
\*   short    a few words without '<', 10 characters at most
\*   proseLt  a sentence that has a '<' but no tag
\*   known    a sentence the introPatterns know, ending with a colon
\*   fence    ```html          tick     ```
\*   doctype  <!DOCTYPE html>  html     <html ...>     endhtml  </html>
\*   body     <body ...>       endbody  </body>
\*   div      markup with <div                tag  markup with other tags
\*   shell    the head of the standard report: <head>, title, style, heading
\*   content  <div class="content">           endcontent  its closing tags
Pieces ==
    {"ws", "prose", "short", "proseLt", "known", "fence", "tick", "doctype",
     "html", "endhtml", "body", "endbody", "div", "tag", "shell", "content",
     "endcontent"}

\* piece.length
PieceLength(piece) ==
    CASE piece = "ws"    -> 1
      [] piece = "short" -> 4
      [] piece = "tick"  -> 3
      [] piece = "fence" -> 7
      [] OTHER           -> 20

RECURSIVE TextLength(_)
TextLength(text) ==
    IF text = <<>> THEN 0 ELSE PieceLength(Head(text)) + TextLength(Tail(text))

\* piece.includes('<')
HasLt(piece) ==
    piece \in {"proseLt", "doctype", "html", "endhtml", "body", "endbody",
               "div", "tag", "content", "endcontent", "shell"}

Includes(text, piece) == \E k \in 1..Len(text) : text[k] = piece

FirstIndex(text, piece) ==
    CHOOSE k \in 1..Len(text) :
        text[k] = piece /\ \A j \in 1..(k - 1) : text[j] # piece

LastIndex(text, piece) ==
    CHOOSE k \in 1..Len(text) :
        text[k] = piece /\ \A j \in (k + 1)..Len(text) : text[j] # piece

\* text.replace(/^\s*/, ''), text.replace(/\s*$/, '') and text.trim()
RECURSIVE TrimStart(_)
TrimStart(text) ==
    IF text # <<>> /\ Head(text) = "ws" THEN TrimStart(Tail(text)) ELSE text

RECURSIVE TrimEnd(_)
TrimEnd(text) ==
    IF text # <<>> /\ text[Len(text)] = "ws"
    THEN TrimEnd(SubSeq(text, 1, Len(text) - 1)) ELSE text

Trim(text) == TrimEnd(TrimStart(text))

\* The pieces between places a and b are all white space.
OnlySpace(text, a, b) == \A j \in a..b : text[j] = "ws"

\* No piece before place k has a line break: '.*?' can run up to k.
SameLine(text, k) == \A j \in 1..(k - 1) : text[j] # "ws"

\* cleanLLMOutput, first step: a leading ```html is removed.
StripLeadingFence(text) ==
    IF Trim(text) # <<>> /\ Head(Trim(text)) = "fence" /\ Head(text) = "fence"
    THEN TrimStart(Tail(text))
    ELSE text

\* The introPatterns: a known sentence on the first line, a colon, white
\* space and ```html are removed with all that precedes them.
StripKnownIntro(text) ==
    LET fences == {f \in 1..Len(text) :
                     /\ text[f] = "fence"
                     /\ \E k \in 1..(f - 1) :
                          /\ text[k] = "known" /\ SameLine(text, k)
                          /\ OnlySpace(text, k + 1, f - 1)}
    IN  IF fences = {} THEN text
        ELSE LET f == CHOOSE x \in fences : \A y \in fences : x <= y
             IN  TrimStart(SubSeq(text, f + 1, Len(text)))

\* The generalIntroPatterns: what precedes <!DOCTYPE html> is removed when it
\* has no '<' (first pattern) or is one line ending in ```html (second
\* pattern), and is longer than 10 characters.
StripGeneralIntro(text) ==
    IF ~Includes(text, "doctype") THEN text
    ELSE LET d       == FirstIndex(text, "doctype")
             before  == SubSeq(text, 1, d - 1)
             first   == \A j \in 1..(d - 1) : ~HasLt(text[j])
             starts  == {x \in 1..Len(text) :
                            /\ text[x] = "doctype"
                            /\ \E f \in 1..(x - 1) :
                                 /\ text[f] = "fence" /\ SameLine(text, f)
                                 /\ OnlySpace(text, f + 1, x - 1)}
             x       == CHOOSE y \in starts : \A z \in starts : y <= z
         IN  IF first /\ TextLength(before) > 10
             THEN SubSeq(text, d, Len(text))
             ELSE IF starts # {} /\ TextLength(SubSeq(text, 1, x - 1)) > 10
             THEN SubSeq(text, x, Len(text))
             ELSE text

\* The text ends with </body>, white space, </html>, white space.
EndsWithDocumentEnd(text) ==
    LET t == TrimEnd(text)
    IN  /\ t # <<>> /\ t[Len(t)] = "endhtml"
        /\ LET u == TrimEnd(SubSeq(t, 1, Len(t) - 1))
           IN  u # <<>> /\ u[Len(u)] = "endbody"

\* What follows the end of the document is removed.
StripAfterDocument(text) ==
    IF EndsWithDocumentEnd(text) THEN text
    ELSE IF Includes(text, "endhtml")
    THEN SubSeq(text, 1, LastIndex(text, "endhtml"))
    ELSE text

\* cleaned.replace(/```\s*$/, '')
StripClosingTick(text) ==
    LET t == TrimEnd(text)
    IN  IF t # <<>> /\ t[Len(t)] = "tick"
        THEN SubSeq(t, 1, Len(t) - 1) ELSE text

\* cleanLLMOutput.
CleanLLMOutput(content) ==
    IF content = <<>> THEN content
    ELSE Trim(StripClosingTick(StripAfterDocument(StripGeneralIntro(
            StripKnownIntro(StripLeadingFence(content))))))

\* The standard report around the content, trimmed.
ReportShell(content) ==
    <<"doctype", "ws", "html", "shell", "body", "content", "ws">> \o content
        \o <<"ws", "endcontent", "endbody", "ws", "endhtml">>

\* wrapInBasicHtml.
WrapInBasicHtml(content) == ReportShell(content)

\* text.replace('</html>', '</body>\n</html>')
ReplaceFirstEnd(text) ==
    IF ~Includes(text, "endhtml") THEN text
    ELSE LET e == FirstIndex(text, "endhtml")
         IN  SubSeq(text, 1, e - 1) \o <<"endbody", "ws", "endhtml">>
                \o SubSeq(text, e + 1, Len(text))

\* repairIncompleteHtml.
RepairIncompleteHtml(content) ==
    IF ~Includes(content, "doctype") THEN ReportShell(content)
    ELSE LET closed == IF ~Includes(content, "endhtml")
                       THEN content \o <<"ws", "endbody", "ws", "endhtml">>
                       ELSE content
         IN  IF ~Includes(closed, "endbody") /\ Includes(closed, "body")
             THEN ReplaceFirstEnd(closed)
             ELSE closed

\* cleanedContent.match(/```html\s*([\s\S]*?)```/): [found, inner].
HtmlMatch(text) ==
    LET opens == {f \in 1..Len(text) :
                    /\ text[f] = "fence"
                    /\ \E g \in (f + 1)..Len(text) : text[g] \in {"tick", "fence"}}
    IN  IF opens = {} THEN [found |-> FALSE, inner |-> <<>>]
        ELSE LET f == CHOOSE x \in opens : \A y \in opens : x <= y
                 g == CHOOSE x \in (f + 1)..Len(text) :
                        /\ text[x] \in {"tick", "fence"}
                        /\ \A j \in (f + 1)..(x - 1) : text[j] \notin {"tick", "fence"}
             IN  [found |-> TRUE, inner |-> TrimStart(SubSeq(text, f + 1, g - 1))]

\* The branch generateChatroomReport takes for a cleaned output.
ReportBranch(cleanedContent) ==
    LET isCompleteHtml    == /\ Includes(cleanedContent, "doctype")
                             /\ Includes(cleanedContent, "html")
                             /\ Includes(cleanedContent, "endhtml")
        hasHtmlInMarkdown == /\ Includes(cleanedContent, "fence")
                             /\ Includes(cleanedContent, "doctype")
        hasPartialHtml    == \/ Includes(cleanedContent, "html")
                             \/ Includes(cleanedContent, "body")
                             \/ Includes(cleanedContent, "div")
    IN  IF isCompleteHtml /\ ~hasHtmlInMarkdown THEN "complete"
        ELSE IF hasHtmlInMarkdown THEN "markdown"
        ELSE IF hasPartialHtml THEN "repair"
        ELSE "wrap"

\* reportHtml of generateChatroomReport.
ReportHtml(cleanedContent) ==
    LET branch == ReportBranch(cleanedContent)
        m      == HtmlMatch(cleanedContent)
    IN  CASE branch = "complete" -> Trim(cleanedContent)
          [] branch = "markdown" -> IF m.found /\ m.inner # <<>>
                                    THEN Trim(m.inner) ELSE cleanedContent
          [] branch = "repair"   -> RepairIncompleteHtml(cleanedContent)
          [] OTHER               -> WrapInBasicHtml(cleanedContent)

\* The model outputs: what the model put before its answer, the answer, bare
\* or inside a ```html block, and what it put after it.
OutputPrefixes ==
    {<<>>, <<"ws">>, <<"prose", "ws">>, <<"short", "ws">>, <<"proseLt", "ws">>,
     <<"known", "ws">>}

OutputCores ==
    {<<"doctype", "ws", "html", "body", "div", "endbody", "ws", "endhtml">>,
     <<"doctype", "ws", "html", "body", "div">>,
     <<"body", "div", "endbody">>,
     <<"tag", "prose">>,
     <<"prose", "ws", "prose">>,
     <<"prose", "ws", "tick", "ws", "prose", "ws", "tick">>,
     <<>>}

OutputSuffixes == {<<>>, <<"ws">>, <<"ws", "prose">>}

Fenced(core) == <<"fence", "ws">> \o core \o <<"ws", "tick">>

ModelOutputs ==
    {p \o c \o x : p \in OutputPrefixes, x \in OutputSuffixes,
                   c \in OutputCores \cup {Fenced(k) : k \in OutputCores}}

IdleHtmlCall ==
    [pc |-> "idle", analysisContent |-> <<>>, cleanedContent |-> <<>>,
     branch |-> "none", reportHtml |-> <<>>]

HtmlIdle == htmlCall = IdleHtmlCall

\* ------------------------------------------------------ startup clean-up
MaxStored == 3      \* tasks in the store at startup

\* progress_status of a stored task; "none" when the field is missing.
ProgressStates == {"none", "not_started", "analyzing", "completed", "failed"}

StoredTasks == UNION {[1..n -> ProgressStates] : n \in 0..MaxStored}

\* The callback of cleanupTaskStatus resetting every task it visits.
ResetStatus_EveryTask(status) == "not_started"

\* The callback of cleanupTaskStatus: the new progress_status of a task.
ResetStatus(status) == IF status = "analyzing" THEN "not_started" ELSE status

IdleCleanupCall ==
    [pc |-> "idle", stored |-> <<>>, tasks |-> <<>>, i |-> 0, cleanedCount |-> 0,
     writable |-> TRUE, saved |-> FALSE, returned |-> 0]

CleanupIdle == cleanupCall = IdleCleanupCall

\* --------------------------------------------------- stored configuration
\* A value of a configuration field: absent (undefined) or a number.  The
\* user field chatlogUrl is modelled by the number of the address it holds.
Undefined == [defined |-> FALSE, n |-> 0]

Num(n) == [defined |-> TRUE, n |-> n]

SystemFields == {"nextTaskId", "nextReportId", "nextTemplateId"}

UserFields == {"chatlogUrl"}

MinId == 1

MinTemplateId == 7

SystemValues == {Undefined, Num(0), Num(3), Num(10)}

UserValues == {Undefined, Num(1), Num(2)}

ConfigObjects ==
    [nextTaskId : SystemValues, nextReportId : SystemValues,
     nextTemplateId : SystemValues, chatlogUrl : UserValues]

\* DEFAULT_CONFIG: no system field, an empty address.
DEFAULT_CONFIG ==
    [nextTaskId |-> Undefined, nextReportId |-> Undefined,
     nextTemplateId |-> Undefined, chatlogUrl |-> Num(0)]

\* { ...existingConfig, ...config }
Spread(existingConfig, config) ==
    [f \in DOMAIN existingConfig |->
        IF config[f].defined THEN config[f] ELSE existingConfig[f]]

\* The forEach over systemFields: a field the submitted configuration lacks
\* keeps the existing value.
ProtectSystemFields(mergedConfig, existingConfig, config) ==
    [f \in DOMAIN mergedConfig |->
        IF    f \in SystemFields
           /\ existingConfig[f].defined
           /\ ~config[f].defined
        THEN existingConfig[f]
        ELSE mergedConfig[f]]

\* Math.max(value || minimum, minimum)
EnsureMinimum(value, minimum) ==
    LET given == IF value.defined /\ value.n # 0 THEN value.n ELSE minimum
    IN  Num(IF given > minimum THEN given ELSE minimum)

EnsureMinimums(mergedConfig) ==
    [mergedConfig EXCEPT
        !.nextTaskId     = EnsureMinimum(@, MinId),
        !.nextReportId   = EnsureMinimum(@, MinId),
        !.nextTemplateId = EnsureMinimum(@, MinTemplateId)]

FileStates == {"present", "missing", "corrupt"}

IdleConfigCall ==
    [pc |-> "idle", file |-> "present", stored |-> DEFAULT_CONFIG,
     config |-> DEFAULT_CONFIG, existingConfig |-> DEFAULT_CONFIG,
     mergedConfig |-> DEFAULT_CONFIG, written |-> DEFAULT_CONFIG]

ConfigIdle == configCall = IdleConfigCall

\* ------------------------------------------------------- scheduler registry
MaxJobs  == 2      \* cron jobs created per behaviour
MaxYears == 2      \* calendar years the process lives through

\* How a task is scheduled: schedule_type ("daily" also stands for weekly),
\* whether the field its type reads (schedule_time, cron_expression) is set,
\* and whether cron.schedule accepts the expression derived from it.
Schedules ==
    {sch \in [type : {"once", "daily"}, given : BOOLEAN, valid : BOOLEAN] :
        ~sch.given => ~sch.valid}

\* The registry: the cron jobs made so far (jobs), the job each id's entry
\* of the tasks Map holds (entry, 0: no entry), the status and schedule of
\* the stored tasks, the calendar year, and the last call with its result.
\* A job made from a schedule_time matches one minute of every year
\* (yearly); firedYear is the year of its last fire and, for a yearly job,
\* fires the number of its fires.  offRuns: the runs a fire started for a
\* task that was disabled or deleted at that moment.
NoCall == [op |-> "none", task |-> 0, returned |-> FALSE, hadEntry |-> FALSE,
           oldJob |-> 0]

IdleSched ==
    [pc |-> "idle", jobs |-> <<>>, entry |-> [t \in Tasks |-> 0],
     status |-> [t \in Tasks |-> "enabled"],
     schedule |-> [t \in Tasks |-> [type |-> "daily", given |-> TRUE,
                                    valid |-> TRUE]],
     year |-> 1, last |-> NoCall, offRuns |-> {}]

\* removeTask without stopping the cron job.
RemoveTaskIn_KeepJob(sc, taskId) ==
    IF sc.entry[taskId] # 0 THEN [sc EXCEPT !.entry[taskId] = 0] ELSE sc

\* TaskScheduler.removeTask on the registry.
RemoveTaskIn(sc, taskId) ==
    IF sc.entry[taskId] # 0
    THEN [sc EXCEPT !.jobs[sc.entry[taskId]].started = FALSE,
                    !.entry[taskId] = 0]
    ELSE sc

\* TaskScheduler.addTask on the registry: removeTask, then cron.schedule,
\* which throws for an expression it does not accept, then tasks.set and
\* cronJob.start().
AddTaskIn(sc, taskId, sch) ==
    LET r == RemoveTaskIn(sc, taskId)
    IN  IF sch.valid
        THEN [r EXCEPT !.jobs = Append(@, [task |-> taskId, started |-> TRUE,
                                           yearly |-> sch.type = "once",
                                           firedYear |-> 0, fires |-> 0]),
                       !.entry[taskId] = Len(r.jobs) + 1]
        ELSE r

\* The cronExpr of registerTask and loadExistingTasks is set.
HasCronExpr(sch) == sch.given

\* loadExistingTasks on the registry, for the stored tasks from id k on.
RECURSIVE LoadExistingTasks(_, _, _)
LoadExistingTasks(sc, stored, k) ==
    IF k > MaxTasks THEN sc
    ELSE LoadExistingTasks(
             IF    k \in stored /\ sc.status[k] = "enabled"
                /\ HasCronExpr(sc.schedule[k])
             THEN AddTaskIn(sc, k, sc.schedule[k])
             ELSE sc,
             stored, k + 1)

\* The ids that have an entry in the tasks Map.
Registered(sc) == {t \in Tasks : sc.entry[t] # 0}

SchedIdle == sched = IdleSched

\* ------------------------------------------------------ Kimi request size
MaxKiloTokens == 130   \* estimated input sizes 0, 1000, ... tokens

\* The model ids callKimiAPI is called with (parts as in LlmModels).
KimiModels ==
    {<<"moonshot", "-", "v1-8k">>, <<"moonshot", "-", "v1-32k">>,
     <<"moonshot", "-", "v1-128k">>, <<"kimi", "-", "k2-0711-preview">>,
     <<"kimi", "-", "latest">>}

InputSizes == {k * 1000 : k \in 0..MaxKiloTokens} \cup {7001, 29769}

\* model.includes(text), for the texts the code asks about.
ModelIncludes(model, text) ==
    /\ Len(model) = 3
    /\ \/ text = "k2"   /\ model[3] = "k2-0711-preview"
       \/ text = "32k"  /\ model[3] = "v1-32k"
       \/ text = "128k" /\ model[3] = "v1-128k"

\* modelName of callKimiAPI: kimi- ids go to a moonshot model.
KimiModelName(model) ==
    IF StartsWith(model, <<"kimi", "-">>)
    THEN IF ModelIncludes(model, "k2") THEN <<"moonshot", "-", "v1-32k">>
         ELSE <<"moonshot", "-", "v1-8k">>
    ELSE model

\* maxTokens of callKimiAPI.
KimiMaxTokens(modelName, inputTokens) ==
    LET first ==
          IF ModelIncludes(modelName, "32k")
          THEN Min(4000, 32768 - inputTokens - 3000)
          ELSE IF ModelIncludes(modelName, "128k")
          THEN Min(8000, 128000 - inputTokens - 3000)
          ELSE Min(3000, 8000 - inputTokens - 1000)
    IN  Max(first, 1000)

IdleKimiCall ==
    [pc |-> "idle", model |-> <<"moonshot", "-", "v1-8k">>, hasKey |-> TRUE,
     inputTokens |-> 0, modelName |-> <<>>, maxTokens |-> 0]

KimiIdle == kimiCall = IdleKimiCall

\* ------------------------------------------------- the writers of config.json
\* ------------------------------------------------ the two writers of config.json
MaxIds == 3            \* ids the store hands out per counter

DefaultTemplates == 5  \* the templates insertDefaultData creates

\* The counters of a configuration object.
Counters(config) ==
    [f \in SystemFields |-> config[f]]

\* !config.nextXId: the field is absent, null or 0.
NeedsRepair(value) == ~value.defined \/ value.n = 0

\* DatabaseManager.saveData: this.config replaces the content of config.json.
SaveData(st) ==
    [st EXCEPT !.exists = TRUE, !.file = st.config,
               !.storeIds = Counters(st.config), !.stored = TRUE]

\* DatabaseManager.loadData: this.config is the parsed file, with absent
\* counters computed from the stored tasks, reports and templates; with no
\* file it holds the three counters alone.  Saved when anything was computed.
LoadData(st) ==
    IF st.exists
    THEN LET repaired ==
                 [st.file EXCEPT
                     !.nextTaskId =
                         IF NeedsRepair(@) THEN Num(st.maxTaskId + 1) ELSE @,
                     !.nextReportId =
                         IF NeedsRepair(@) THEN Num(st.maxReportId + 1) ELSE @,
                     !.nextTemplateId =
                         IF NeedsRepair(@) THEN Num(st.maxTemplateId + 1) ELSE @]
             loaded == [st EXCEPT !.config = repaired]
         IN  IF repaired # st.file THEN SaveData(loaded) ELSE loaded
    ELSE SaveData([st EXCEPT !.config =
                      [nextTaskId     |-> Num(st.maxTaskId + 1),
                       nextReportId   |-> Num(st.maxReportId + 1),
                       nextTemplateId |-> Num(st.maxTemplateId + 1),
                       chatlogUrl     |-> Undefined]])

\* settingsManager.saveConfig on an existing file: the new content.
SaveConfigOn(existingConfig, config) ==
    EnsureMinimums(
        ProtectSystemFields(Spread(existingConfig, config),
                            existingConfig, config))

\* The body of POST /settings: the user fields alone.
SettingsBody(url) ==
    [nextTaskId |-> Undefined, nextReportId |-> Undefined,
     nextTemplateId |-> Undefined, chatlogUrl |-> Num(url)]

\* exists, file: config.json; config: DatabaseManager's this.config;
\* max*Id: the largest id in tasks.json, reports.json, prompt_templates.json;
\* savedUrl: the chatlogUrl last given to saveConfig; storeIds: the counters
\* last written by saveData (stored: there was such a write); last: the
\* last operation.
IdleStoreCall ==
    [pc |-> "idle", exists |-> FALSE, file |-> DEFAULT_CONFIG,
     config |-> DEFAULT_CONFIG, maxTaskId |-> 0, maxReportId |-> 0,
     maxTemplateId |-> 0, savedUrl |-> Undefined,
     storeIds |-> Counters(DEFAULT_CONFIG), stored |-> FALSE, last |-> "none"]

StoreIdle == storeCall = IdleStoreCall

MoreIdle ==
    /\ SchedIdle
    /\ KimiIdle
    /\ StoreIdle

CallsIdle ==
    /\ FetchIdle
    /\ LlmIdle
    /\ BudgetIdle
    /\ TokenIdle
    /\ ParseIdle
    /\ ShapeIdle
    /\ HtmlIdle
    /\ CleanupIdle
    /\ ConfigIdle
    /\ MoreIdle

\* The function-level state that the specifications of one unit leave idle.
UnitsIdle ==
    /\ ParseIdle
    /\ ShapeIdle
    /\ HtmlIdle
    /\ CleanupIdle
    /\ ConfigIdle
    /\ MoreIdle

\* ------------------------------------------------------------ initial
\* The state after construction.  What no run ever reads is left out: the
\* service and the provider are only asked about the task's rooms, the
\* service only when its URL is configured, and the local file only when
\* the service gave nothing; the provider is only called for rooms that have
\* messages.
PipelineInit ==
    /\ isStarted = FALSE
    /\ tasks = {}
    /\ runningTasks = {}
    /\ dbTasks = Tasks
    /\ progress = [t \in Tasks |-> "not_started"]
    /\ storeOk = TRUE
    /\ reports = [r \in RunIds |-> <<>>]
    /\ nextReportId = 1
    /\ runs = [r \in RunIds |-> IdleRun]
    /\ nextRun = 1
    /\ dropped = [t \in Tasks |-> 0]

\* Every environment of a task: its rooms, the service, the local file, the
\* provider.
EnvInit ==
    /\ taskRooms \in {[k \in 1..n |-> k] : n \in 1..MaxRooms}
    /\ chatlogUrl \in BOOLEAN
    /\ remote \in SUBSET Range(taskRooms)
    /\ ~chatlogUrl => remote = {}
    /\ cacheFile \in CacheChoices
    /\ llmDown \in SUBSET Range(taskRooms)
    /\ \A x \in llmDown :
          \/ x \in remote
          \/ \E k \in 1..Len(cacheFile) :
                cacheFile[k].chatroom = x /\ cacheFile[k].count > 0

\* One fixed environment, for the specifications that do not run the pipeline.
EnvFixed ==
    /\ taskRooms = <<1>>
    /\ chatlogUrl = FALSE
    /\ remote = {}
    /\ cacheFile = <<>>
    /\ llmDown = {}

Init ==
    /\ PipelineInit
    /\ EnvInit
    /\ remote # {} => cacheFile = <<>>
    /\ CallsIdle

\* ------------------------------------------------------ scheduler control
\* TaskScheduler.start with loadExistingTasks: every stored (enabled,
\* scheduled) task gets a cron job.
Start ==
    /\ ~isStarted
    /\ isStarted' = TRUE
    /\ tasks' = dbTasks
    /\ UNCHANGED <<runningTasks, dbTasks, progress, env, calls, storeOk, reports,
                   nextReportId, runs, nextRun, dropped>>

\* TaskScheduler.stop.
Stop ==
    /\ isStarted
    /\ tasks' = {}
    /\ runningTasks' = {}
    /\ isStarted' = FALSE
    /\ UNCHANGED <<dbTasks, progress, env, calls, storeOk, reports, nextReportId,
                   runs, nextRun, dropped>>

\* DELETE /tasks/:id: the task leaves the store; the scheduler is not told.
DeleteTask(t) ==
    /\ t \in dbTasks
    /\ dbTasks' = dbTasks \ {t}
    /\ progress' = [progress EXCEPT ![t] = "none"]
    /\ UNCHANGED <<isStarted, tasks, runningTasks, env, calls, storeOk, reports,
                   nextReportId, runs, nextRun, dropped>>

\* The data directory stops taking writes (disk full, permissions lost); from
\* then on every saveData throws.
StoreFails ==
    /\ storeOk
    /\ storeOk' = FALSE
    /\ UNCHANGED <<isStarted, tasks, runningTasks, dbTasks, progress, env, calls,
                   reports, nextReportId, runs, nextRun, dropped>>

\* ------------------------------------------------------------ a run ends
\* executeTask without its finally block.
EndRun_NoFinally(kind, t, prog, thrown) ==
    /\ runningTasks' = runningTasks
    /\ progress' =
         IF kind = "endpoint"
         THEN UpdateTaskProgress(prog, t,
                 IF thrown \/ ~storeOk THEN "failed" ELSE "completed")
         ELSE prog

\* What happens when runTaskProcess returns or throws, by caller:
\* executeTask's finally block takes the id out of the running set;
\* the execute endpoint then writes completed, or failed from its catch
\* block (also when saving completed throws).
EndRun(kind, t, prog, thrown) ==
    /\ runningTasks' = IF kind = "timer" THEN runningTasks \ {t} ELSE runningTasks
    /\ progress' =
         IF kind = "endpoint"
         THEN UpdateTaskProgress(prog, t,
                 IF thrown \/ ~storeOk THEN "failed" ELSE "completed")
         ELSE prog

\* ------------------------------------------------------- a run starts
\* runTaskProcess up to its first await, in frame r for caller `kind`: what
\* it does to the frames, the progress states and the running set.
RunTaskProcessBody(r, t, kind) ==
    IF t \notin dbTasks
    THEN /\ runs' = [runs EXCEPT ![r] =
                       [IdleRun EXCEPT !.kind = kind, !.task = t, !.pc = "done"]]
         /\ EndRun(kind, t, progress, FALSE)
    ELSE LET prog1 == UpdateTaskProgress(progress, t, "analyzing")
         IN  IF ~storeOk
             THEN /\ runs' = [runs EXCEPT ![r] =
                                [IdleRun EXCEPT !.kind = kind, !.task = t,
                                                !.pc = "done", !.threw = TRUE]]
                  /\ EndRun(kind, t, prog1, TRUE)
             ELSE /\ runs' = [runs EXCEPT ![r] =
                                [IdleRun EXCEPT !.kind = kind, !.task = t,
                                   !.pc = IF chatlogUrl THEN "fetch" ELSE "gathered",
                                   !.j = 1]]
                  /\ progress' = prog1
                  /\ runningTasks' = IF kind = "timer"
                                     THEN runningTasks \cup {t}
                                     ELSE runningTasks

RunTaskProcessStart(r, t, kind) ==
    /\ nextRun' = nextRun + 1
    /\ RunTaskProcessBody(r, t, kind)
    /\ UNCHANGED <<isStarted, tasks, dbTasks, env, calls, storeOk, reports,
                   nextReportId>>

\* A cron job fires: executeTask.
TimerFire(t) ==
    /\ t \in tasks
    /\ IF IsRunning(t)
       THEN /\ dropped[t] < MaxDrops
            /\ dropped' = [dropped EXCEPT ![t] = @ + 1]
            /\ UNCHANGED <<isStarted, tasks, runningTasks, dbTasks, progress,
                           env, calls, storeOk, reports, nextReportId, runs, nextRun>>
       ELSE /\ nextRun <= MaxRuns
            /\ RunTaskProcessStart(nextRun, t, "timer")
            /\ UNCHANGED dropped

\* TaskScheduler.executeTaskNow (app.js calls it after scheduler.start()).
ExecuteTaskNow(t) ==
    /\ isStarted
    /\ nextRun <= MaxRuns
    /\ RunTaskProcessStart(nextRun, t, "now")
    /\ UNCHANGED dropped

\* POST /tasks/:id/execute (the server listens after scheduler.start()).
ExecuteEndpoint(t) ==
    /\ isStarted
    /\ nextRun <= MaxRuns
    /\ RunTaskProcessStart(nextRun, t, "endpoint")
    /\ UNCHANGED dropped

\* ------------------------------------------------------- steps of a run
\* One pass of the live-fetch loop: fetchChatlogFromExternal for room j, then
\* filterMessagesByTimeRange.  err: the fetch threw; c: whether messages are
\* left after the filter (0 also stands for an empty answer).
FetchRoom(r) ==
    /\ runs[r].pc = "fetch"
    /\ \E err \in BOOLEAN, c \in Counts :
         LET f    == runs[r]
             room == taskRooms[f.j]
             logs == IF ~err /\ c > 0
                     THEN Append(f.chatlogs, [chatroom |-> room, count |-> c])
                     ELSE f.chatlogs
         IN  /\ (~err /\ c > 0) <=> room \in remote
             /\ runs' = [runs EXCEPT ![r] =
                           [f EXCEPT !.chatlogs = logs,
                                     !.j = f.j + 1,
                                     !.pc = IF f.j < Len(taskRooms)
                                            THEN "fetch" ELSE "gathered"]]
    /\ UNCHANGED <<isStarted, tasks, runningTasks, dbTasks, progress, env, calls,
                   storeOk, reports, nextReportId, nextRun, dropped>>

\* After the fetch loop: the local fallback, the no-data exit, getFullPrompt.
Gathered(r) ==
    /\ runs[r].pc = "gathered"
    /\ LET f        == runs[r]
           t        == f.task
           fallback == f.chatlogs = <<>> \/ SumCounts(f.chatlogs) = 0
           local    == FilterCache(cacheFile, taskRooms)
           useLocal == fallback /\ local # <<>>
           logs     == IF useLocal THEN local ELSE f.chatlogs
       IN  IF logs = <<>>
           THEN /\ reports' = [reports EXCEPT ![r] =
                                 CreateReport(@, t, NoRoom, "failed", FALSE, 0, 0)]
                /\ nextReportId' = nextReportId + 1
                /\ runs' = [runs EXCEPT ![r] =
                              [f EXCEPT !.pc = "done", !.threw = ~storeOk]]
                /\ EndRun(f.kind, t, progress, ~storeOk)
           ELSE IF t \notin dbTasks
           THEN /\ runs' = [runs EXCEPT ![r] =
                              [f EXCEPT !.chatlogs = logs, !.fromCache = useLocal,
                                        !.pc = "done", !.threw = TRUE]]
                /\ EndRun(f.kind, t, progress, TRUE)
                /\ UNCHANGED <<reports, nextReportId>>
           ELSE /\ runs' = [runs EXCEPT ![r] =
                              [f EXCEPT !.chatlogs = logs, !.fromCache = useLocal,
                                        !.pc = "analyze", !.i = 1]]
                /\ UNCHANGED <<reports, nextReportId, runningTasks, progress>>
    /\ UNCHANGED <<isStarted, tasks, dbTasks, env, calls, storeOk, nextRun, dropped>>

\* analyzeSingleChatroom for chatlogs[i].  a1, a2: whether the first and the
\* second provider attempt succeed.
AnalyzeRoom(r) ==
    /\ runs[r].pc = "analyze"
    /\ \E a1 \in BOOLEAN, a2 \in BOOLEAN :
         LET f   == runs[r]
             log == f.chatlogs[f.i]
             res == Analyze(log.count, a1, a2)
         IN  /\ (a1 \/ a2) <=> log.chatroom \notin llmDown
             /\ runs' = [runs EXCEPT ![r] =
                           [f EXCEPT !.analysis = res,
                                     !.llm = Append(f.llm, res),
                                     !.log = Append(f.log, [ev |-> "llm",
                                                            room |-> log.chatroom]),
                                     !.pc = "report"]]
    /\ UNCHANGED <<isStarted, tasks, runningTasks, dbTasks, progress, env, calls,
                   storeOk, reports, nextReportId, nextRun, dropped>>

\* generateChatroomReport for chatlogs[i] and the bookkeeping of the loop body.
\* fileOk: whether the report file of this room can be written.
ReportRoom(r) ==
    /\ runs[r].pc = "report"
    /\ \E fileOk \in BOOLEAN :
       LET f   == runs[r]
           log == f.chatlogs[f.i]
           g   == GenerateChatroomReport(reports[r], f.task, log.chatroom,
                                         log.count, f.i, fileOk, storeOk, storeOk)
           won == g.outcome = "success"
       IN  /\ reports' = [reports EXCEPT ![r] = g.reports]
           /\ nextReportId' = nextReportId + g.pushed
           /\ runs' = [runs EXCEPT ![r] =
                         [f EXCEPT !.succ = IF won THEN f.succ + 1 ELSE f.succ,
                                   !.fail = IF won THEN f.fail ELSE f.fail + 1,
                                   !.results = Append(f.results,
                                                 IF won THEN "success" ELSE "failed"),
                                   !.analysis = "none",
                                   !.fileErrs = IF fileOk THEN f.fileErrs
                                                ELSE f.fileErrs + 1,
                                   !.log = Append(f.log, [ev |-> "report",
                                                          room |-> log.chatroom]),
                                   !.pc = AfterRoom(f.i, Len(f.chatlogs),
                                                    g.outcome)]]
    /\ UNCHANGED <<isStarted, tasks, runningTasks, dbTasks, progress, env, calls,
                   storeOk, nextRun, dropped>>

\* The fixed delay between two rooms.
Sleep(r) ==
    /\ runs[r].pc = "sleep"
    /\ LET f == runs[r]
       IN  runs' = [runs EXCEPT ![r] =
                      [f EXCEPT !.i = f.i + 1,
                                !.log = Append(f.log, [ev |-> "sleep",
                                                       room |-> NoRoom]),
                                !.pc = "analyze"]]
    /\ UNCHANGED <<isStarted, tasks, runningTasks, dbTasks, progress, env, calls,
                   storeOk, reports, nextReportId, nextRun, dropped>>

\* After the loop: the aggregate status and the final progress write.
Finish(r) ==
    /\ runs[r].pc = "finish"
    /\ LET f       == runs[r]
           t       == f.task
           overall == OverallStatus(f.succ, f.fail)
           final   == FinalProgress(overall)
           thrown  == t \in dbTasks /\ ~storeOk
       IN  /\ runs' = [runs EXCEPT ![r] =
                         [f EXCEPT !.overall = overall, !.wrote = final,
                                   !.threw = thrown, !.pc = "done"]]
           /\ EndRun(f.kind, t, UpdateTaskProgress(progress, t, final), thrown)
    /\ UNCHANGED <<isStarted, tasks, dbTasks, env, calls, storeOk, reports,
                   nextReportId, nextRun, dropped>>

RunStep(r) ==
    \/ FetchRoom(r)
    \/ Gathered(r)
    \/ AnalyzeRoom(r)
    \/ ReportRoom(r)
    \/ Sleep(r)
    \/ Finish(r)

\* -------------------------------------------------------- specification
Next ==
    \/ Start
    \/ StoreFails
    \/ \E t \in Tasks : TimerFire(t)
    \/ \E t \in Tasks : ExecuteTaskNow(t)
    \/ \E t \in Tasks : ExecuteEndpoint(t)
    \/ \E r \in RunIds : FetchRoom(r)
    \/ \E r \in RunIds : Gathered(r)
    \/ \E r \in RunIds : AnalyzeRoom(r)
    \/ \E r \in RunIds : ReportRoom(r)
    \/ \E r \in RunIds : Sleep(r)
    \/ \E r \in RunIds : Finish(r)

Spec == Init /\ [][Next]_vars

\* The pipeline over every environment, also those where the local file holds
\* rooms while the transcript service answers for others.
AcqInit ==
    /\ PipelineInit
    /\ EnvInit
    /\ CallsIdle

AcqSpec == AcqInit /\ [][Next]_vars

\* The outbound calls carry timeouts and the delays are timers, so a run that
\* can take its next step eventually takes it.
FairSpec == Spec /\ \A r \in RunIds : WF_vars(RunStep(r))

\* ------------------------------------------- one fetch with its filter
TimeInit ==
    /\ PipelineInit
    /\ EnvFixed
    /\ UnitsIdle
    /\ clock \in Clocks
    /\ timeRange \in TimeRanges
    /\ rawMsgs \in MsgSeqs
    /\ fetchCall = IdleFetch
    /\ LlmIdle
    /\ BudgetIdle
    /\ TokenIdle

\* fetchChatlogFromExternal up to its request: generateTimeParam.
FetchRequest ==
    /\ fetchCall.pc = "idle"
    /\ fetchCall' = [fetchCall EXCEPT
                       !.pc = "requested",
                       !.window = IF IsAll(timeRange) THEN NoWindow
                                  ELSE ParamWindow(timeRange, clock),
                       !.timeParam = GenerateTimeParam(timeRange, clock)]
    /\ UNCHANGED <<pipeline, clock, timeRange, rawMsgs, llmCall, budgetCall,
                   tokenCall, units>>

\* A second passes while the request is under way.
Tick ==
    /\ fetchCall.pc = "requested"
    /\ fetchCall.ticks < MaxTicks
    /\ clock' = [clock EXCEPT !.s = @ + 1]
    /\ fetchCall' = [fetchCall EXCEPT !.ticks = @ + 1]
    /\ UNCHANGED <<pipeline, timeRange, rawMsgs, llmCall, budgetCall, tokenCall,
                   units>>

\* The answer arrives: the field mapping of fetchChatlogFromExternal, then
\* filterMessagesByTimeRange in runTaskProcess.
FetchResponse ==
    /\ fetchCall.pc = "requested"
    /\ LET std == [k \in 1..Len(rawMsgs) |-> Standardize(rawMsgs[k], clock)]
           f   == FilterMessagesByTimeRange(std, timeRange, clock)
       IN  fetchCall' = [fetchCall EXCEPT
                           !.pc = "filtered",
                           !.messages = std,
                           !.filterWindow = IF IsAll(timeRange) THEN NoWindow
                                            ELSE FilterWindow(timeRange, clock),
                           !.kept = f.kept,
                           !.invalidTimeCount = f.invalidTimeCount,
                           !.outOfRangeCount = f.outOfRangeCount]
    /\ UNCHANGED <<pipeline, clock, timeRange, rawMsgs, llmCall, budgetCall,
                   tokenCall, units>>

\* filterMessagesByTimeRange applied to messages as they are.
FilterDirect ==
    /\ fetchCall.pc = "idle"
    /\ LET f == FilterMessagesByTimeRange(rawMsgs, timeRange, clock)
       IN  fetchCall' = [fetchCall EXCEPT
                           !.pc = "filtered",
                           !.messages = rawMsgs,
                           !.filterWindow = IF IsAll(timeRange) THEN NoWindow
                                            ELSE FilterWindow(timeRange, clock),
                           !.kept = f.kept,
                           !.invalidTimeCount = f.invalidTimeCount,
                           !.outOfRangeCount = f.outOfRangeCount]
    /\ UNCHANGED <<pipeline, clock, timeRange, rawMsgs, llmCall, budgetCall,
                   tokenCall, units>>

TimeNext ==
    \/ FetchRequest
    \/ Tick
    \/ FetchResponse
    \/ FilterDirect

TimeSpec == TimeInit /\ [][TimeNext]_vars

\* --------------------------------------------- one analyze call's loop
RetryInit ==
    /\ PipelineInit
    /\ EnvFixed
    /\ UnitsIdle
    /\ FetchIdle
    /\ BudgetIdle
    /\ TokenIdle
    /\ \E m \in LlmModels, k \in BOOLEAN :
         llmCall = [IdleLlmCall EXCEPT !.pc = "attempt", !.llmModel = m,
                                       !.hasKey = k, !.attempt = 1]

\* One pass of the try block: the dispatch on the model id, the key test of
\* the provider's caller, the request.  A failure goes to the catch block.
Attempt ==
    /\ llmCall.pc = "attempt"
    /\ \E o \in HttpOutcomes :
         LET c    == llmCall
             sent == Provider(c.llmModel) # "none" /\ c.hasKey
             out  == IF Provider(c.llmModel) = "none" THEN "unsupported"
                     ELSE IF ~c.hasKey THEN "nokey" ELSE o
             ev   == [ev |-> "attempt", n |-> c.attempt, outcome |-> out,
                      sent |-> sent, ms |-> 0, calls |-> Dispatch(c.llmModel)]
         IN  /\ ~sent => o = "ok"
             /\ IF out = "ok"
                THEN llmCall' = [c EXCEPT
                        !.result = "content",
                        !.requests = @ + 1,
                        !.events = Append(@, ev),
                        !.pc = "returned",
                        !.returned = LoopResult("content", c.lastError)]
                ELSE IF AfterFailure(c.attempt) = "wait"
                THEN llmCall' = [c EXCEPT
                        !.lastError = out,
                        !.requests = IF sent THEN @ + 1 ELSE @,
                        !.events = Append(@, ev),
                        !.pc = "wait"]
                ELSE llmCall' = [c EXCEPT
                        !.lastError = out,
                        !.requests = IF sent THEN @ + 1 ELSE @,
                        !.events = Append(@, ev),
                        !.pc = "returned",
                        !.returned = LoopResult(c.result, out)]
    /\ UNCHANGED <<pipeline, fetchVars, budgetCall, tokenCall, units>>

\* The wait of the catch block is over: the next pass of the loop, if any.
RetryWait ==
    /\ llmCall.pc = "wait"
    /\ LET c  == llmCall
           ev == [ev |-> "wait", n |-> c.attempt, outcome |-> "none",
                  sent |-> FALSE, ms |-> WaitTime(c.attempt), calls |-> <<>>]
       IN  llmCall' = [c EXCEPT
              !.events = Append(@, ev),
              !.attempt = @ + 1,
              !.pc = IF c.attempt + 1 <= MaxRetries THEN "attempt" ELSE "returned",
              !.returned = IF c.attempt + 1 <= MaxRetries THEN @
                           ELSE LoopResult(c.result, c.lastError)]
    /\ UNCHANGED <<pipeline, fetchVars, budgetCall, tokenCall, units>>

RetryNext ==
    \/ Attempt
    \/ RetryWait

RetrySpec == RetryInit /\ [][RetryNext]_vars

\* ------------------------------------------------ one token estimate
TokenInit ==
    /\ PipelineInit
    /\ EnvFixed
    /\ UnitsIdle
    /\ FetchIdle
    /\ LlmIdle
    /\ BudgetIdle
    /\ \E t \in Texts : tokenCall = [IdleTokenCall EXCEPT !.text = t]

Estimate ==
    /\ tokenCall.pc = "idle"
    /\ tokenCall' = [tokenCall EXCEPT !.pc = "done",
                                      !.tokens = EstimateTokenCount(tokenCall.text)]
    /\ UNCHANGED <<pipeline, fetchVars, llmCall, budgetCall, units>>

TokenNext == Estimate

TokenSpec == TokenInit /\ [][TokenNext]_vars

\* ------------------------------------------ the prompt of one analyze call
BudgetInit ==
    /\ PipelineInit
    /\ EnvFixed
    /\ UnitsIdle
    /\ FetchIdle
    /\ LlmIdle
    /\ TokenIdle
    /\ \E m \in BudgetModels, p \in UserPrompts, c \in ChatlogSeqs :
         budgetCall = [IdleBudgetCall EXCEPT !.llmModel = m, !.prompt = p,
                                             !.chatlogs = c]

\* analyze up to the test of the input limit: the messages are formatted and
\* the full prompt is built and estimated.
BuildPrompt ==
    /\ budgetCall.pc = "idle"
    /\ LET c         == budgetCall
           formatted == FormatChatMessages(c.chatlogs)
           system    == GetFinalSystemPrompt(c.prompt, BasePrompt)
           tokens    == TokensOfWeight(
                            BuildAnalysisPrompt(formatted, system, SummaryWeight))
           limit     == MaxInputTokens(c.llmModel)
       IN  budgetCall' =
             IF formatted = <<>>
             THEN [c EXCEPT !.pc = "nodata"]
             ELSE [c EXCEPT
                     !.pc = IF tokens > limit THEN "over" ELSE "fits",
                     !.formatted = formatted,
                     !.finalTokens = tokens,
                     !.maxInputTokens = limit,
                     !.promptTokens = tokens,
                     !.messageCount = MessageCount(formatted)]
    /\ UNCHANGED <<pipeline, fetchVars, llmCall, tokenCall, units>>

\* The prompt is over the limit: optimizePromptForTokenLimit, and the
\* estimate of the prompt it returned.
FitPrompt ==
    /\ budgetCall.pc = "over"
    /\ LET c      == budgetCall
           system == GetFinalSystemPrompt(c.prompt, BasePrompt)
           res    == OptimizePromptForTokenLimit(c.formatted, system,
                                                 c.maxInputTokens)
       IN  budgetCall' = [c EXCEPT
                            !.pc = "fitted",
                            !.available = res.available,
                            !.sorted = res.sorted,
                            !.optimized = res.optimized,
                            !.promptTokens = TokensOfWeight(res.prompt),
                            !.messageCount = res.messageCount]
    /\ UNCHANGED <<pipeline, fetchVars, llmCall, tokenCall, units>>

BudgetNext ==
    \/ BuildPrompt
    \/ FitPrompt

BudgetSpec == BudgetInit /\ [][BudgetNext]_vars

\* --------------------------------------------- one parse of a transcript
ParseInit ==
    /\ PipelineInit
    /\ EnvFixed
    /\ FetchIdle
    /\ LlmIdle
    /\ BudgetIdle
    /\ TokenIdle
    /\ ShapeIdle
    /\ HtmlIdle
    /\ CleanupIdle
    /\ ConfigIdle
    /\ MoreIdle
    /\ \E t \in TranscriptTexts :
         parseCall = [IdleParseCall EXCEPT !.pc = "loop", !.lines = t, !.i = 1]

\* One pass of the loop over the lines of parseTextChatlog.
ParseLine ==
    /\ parseCall.pc = "loop"
    /\ parseCall.i <= Len(parseCall.lines)
    /\ LET c    == parseCall
           line == c.lines[c.i]
       IN  parseCall' =
             IF line = "blank"
             THEN [c EXCEPT !.i = @ + 1]
             ELSE IF IsHeaderLine(line)
             THEN [c EXCEPT
                     !.i = @ + 1,
                     !.messages = FlushMessage(@, c.currentMessage),
                     !.currentMessage = [open |-> TRUE, header |-> c.i,
                                         content |-> <<>>]]
             ELSE IF c.currentMessage.open
             THEN [c EXCEPT !.i = @ + 1,
                            !.currentMessage.content = Append(@, c.i)]
             ELSE [c EXCEPT !.i = @ + 1]
    /\ UNCHANGED <<pipeline, fetchVars, llmCall, budgetCall, tokenCall, moreUnits,
                   shapeCall, htmlCall, cleanupCall, configCall>>

\* The end of the text: the last message is flushed and the list returned.
ParseEnd ==
    /\ parseCall.pc = "loop"
    /\ parseCall.i > Len(parseCall.lines)
    /\ parseCall' = [parseCall EXCEPT
                       !.pc = "done",
                       !.messages = FlushMessage(@, parseCall.currentMessage)]
    /\ UNCHANGED <<pipeline, fetchVars, llmCall, budgetCall, tokenCall, moreUnits,
                   shapeCall, htmlCall, cleanupCall, configCall>>

ParseNext ==
    \/ ParseLine
    \/ ParseEnd

ParseSpec == ParseInit /\ [][ParseNext]_vars

\* ------------------------------------- the output of one model answer
HtmlInit ==
    /\ PipelineInit
    /\ EnvFixed
    /\ FetchIdle
    /\ LlmIdle
    /\ BudgetIdle
    /\ TokenIdle
    /\ ParseIdle
    /\ ShapeIdle
    /\ CleanupIdle
    /\ ConfigIdle
    /\ MoreIdle
    /\ \E o \in ModelOutputs :
         htmlCall = [IdleHtmlCall EXCEPT !.analysisContent = o]

\* generateChatroomReport, first statement: cleanLLMOutput.
CleanOutput ==
    /\ htmlCall.pc = "idle"
    /\ htmlCall' = [htmlCall EXCEPT
                      !.pc = "cleaned",
                      !.cleanedContent = CleanLLMOutput(htmlCall.analysisContent)]
    /\ UNCHANGED <<pipeline, fetchVars, llmCall, budgetCall, tokenCall, moreUnits,
                   parseCall, shapeCall, cleanupCall, configCall>>

\* generateChatroomReport up to reportHtml: the branch and its formatting.
FormatOutput ==
    /\ htmlCall.pc = "cleaned"
    /\ htmlCall' = [htmlCall EXCEPT
                      !.pc = "done",
                      !.branch = ReportBranch(htmlCall.cleanedContent),
                      !.reportHtml = ReportHtml(htmlCall.cleanedContent)]
    /\ UNCHANGED <<pipeline, fetchVars, llmCall, budgetCall, tokenCall, moreUnits,
                   parseCall, shapeCall, cleanupCall, configCall>>

HtmlNext ==
    \/ CleanOutput
    \/ FormatOutput

HtmlSpec == HtmlInit /\ [][HtmlNext]_vars

\* --------------------------------------- cleanupTaskStatus at startup
\* initialize has loaded the tasks and calls cleanupTaskStatus.
CleanupInit ==
    /\ PipelineInit
    /\ EnvFixed
    /\ FetchIdle
    /\ LlmIdle
    /\ BudgetIdle
    /\ TokenIdle
    /\ ParseIdle
    /\ ShapeIdle
    /\ HtmlIdle
    /\ ConfigIdle
    /\ MoreIdle
    /\ \E t \in StoredTasks, w \in BOOLEAN :
         cleanupCall = [IdleCleanupCall EXCEPT !.pc = "loop", !.stored = t,
                                               !.tasks = t, !.i = 1,
                                               !.writable = w]

\* One call of the forEach callback.
CleanupVisit ==
    /\ cleanupCall.pc = "loop"
    /\ cleanupCall.i <= Len(cleanupCall.tasks)
    /\ LET c      == cleanupCall
           status == c.tasks[c.i]
       IN  cleanupCall' = [c EXCEPT
                             !.tasks[c.i] = ResetStatus(status),
                             !.cleanedCount =
                                 IF status = "analyzing" THEN @ + 1 ELSE @,
                             !.i = @ + 1]
    /\ UNCHANGED <<pipeline, fetchVars, llmCall, budgetCall, tokenCall, moreUnits,
                   parseCall, shapeCall, htmlCall, configCall>>

\* After the loop: saveData when a task was reset, which throws when the
\* files cannot be written; else the count is returned.
CleanupReturn ==
    /\ cleanupCall.pc = "loop"
    /\ cleanupCall.i > Len(cleanupCall.tasks)
    /\ LET c == cleanupCall
       IN  cleanupCall' =
             IF c.cleanedCount > 0 /\ ~c.writable
             THEN [c EXCEPT !.pc = "threw"]
             ELSE [c EXCEPT !.pc = "returned",
                            !.saved = c.cleanedCount > 0,
                            !.returned = c.cleanedCount]
    /\ UNCHANGED <<pipeline, fetchVars, llmCall, budgetCall, tokenCall, moreUnits,
                   parseCall, shapeCall, htmlCall, configCall>>

CleanupNext ==
    \/ CleanupVisit
    \/ CleanupReturn

CleanupSpec == CleanupInit /\ [][CleanupNext]_vars

\* ---------------------------------------------------------------- saveConfig
\* saveConfig(config) with a configuration file that is present, missing or
\* unreadable.
ConfigInit ==
    /\ PipelineInit
    /\ EnvFixed
    /\ FetchIdle
    /\ LlmIdle
    /\ BudgetIdle
    /\ TokenIdle
    /\ ParseIdle
    /\ ShapeIdle
    /\ HtmlIdle
    /\ CleanupIdle
    /\ MoreIdle
    /\ \E file \in FileStates, stored \in ConfigObjects \cup {DEFAULT_CONFIG},
          config \in ConfigObjects :
         /\ file # "present" => stored = DEFAULT_CONFIG
         /\ configCall = [IdleConfigCall EXCEPT !.pc = "load", !.file = file,
                                                !.stored = stored,
                                                !.written = stored,
                                                !.config = config]

\* const existingConfig = loadConfig().  With a missing or unreadable file
\* loadConfig calls saveConfig(DEFAULT_CONFIG), which calls loadConfig
\* again: the calls nest until the stack is exhausted and the error leaves
\* saveConfig through its catch, nothing written.
LoadExisting ==
    /\ configCall.pc = "load"
    /\ configCall' =
         IF configCall.file = "present"
         THEN [configCall EXCEPT !.pc = "merge",
                                 !.existingConfig = configCall.stored]
         ELSE [configCall EXCEPT !.pc = "threw"]
    /\ UNCHANGED <<pipeline, fetchVars, llmCall, budgetCall, tokenCall, moreUnits,
                   parseCall, shapeCall, htmlCall, cleanupCall>>

\* The spread and the protection of the system fields.
MergeConfig ==
    /\ configCall.pc = "merge"
    /\ LET c == configCall
       IN  configCall' =
             [c EXCEPT !.pc = "write",
                       !.mergedConfig =
                           ProtectSystemFields(
                               Spread(c.existingConfig, c.config),
                               c.existingConfig, c.config)]
    /\ UNCHANGED <<pipeline, fetchVars, llmCall, budgetCall, tokenCall, moreUnits,
                   parseCall, shapeCall, htmlCall, cleanupCall>>

\* The minimums and writeFileSync.
WriteConfig ==
    /\ configCall.pc = "write"
    /\ LET c == configCall
           m == EnsureMinimums(c.mergedConfig)
       IN  configCall' = [c EXCEPT !.pc = "saved", !.mergedConfig = m,
                                   !.written = m]
    /\ UNCHANGED <<pipeline, fetchVars, llmCall, budgetCall, tokenCall, moreUnits,
                   parseCall, shapeCall, htmlCall, cleanupCall>>

ConfigNext ==
    \/ LoadExisting
    \/ MergeConfig
    \/ WriteConfig

ConfigSpec == ConfigInit /\ [][ConfigNext]_vars

\* ------------------------------------------------- fetchChatlogFromExternal
\* The handling of one response body, from `let data = response.data` on.
ShapeInit ==
    /\ PipelineInit
    /\ EnvFixed
    /\ FetchIdle
    /\ LlmIdle
    /\ BudgetIdle
    /\ TokenIdle
    /\ ParseIdle
    /\ HtmlIdle
    /\ CleanupIdle
    /\ ConfigIdle
    /\ MoreIdle
    /\ \E r \in Responses :
         shapeCall = [IdleShapeCall EXCEPT !.pc = "received", !.response = r,
                                           !.data = r.value]

\* An HTML page: the request is repeated in text format; a string answer is
\* parsed as a transcript, anything else ends in `return null`.
HandleHtmlPage ==
    /\ shapeCall.pc = "received"
    /\ shapeCall.response.isString
    /\ IsHtmlPage(shapeCall.response.text)
    /\ LET t == shapeCall.response.text
       IN  shapeCall' = [shapeCall EXCEPT
                           !.pc = "returned",
                           !.result = IF t.secondOk THEN Found(t.secondParsed)
                                      ELSE NullResult]
    /\ UNCHANGED <<pipeline, fetchVars, llmCall, budgetCall, tokenCall, moreUnits,
                   parseCall, htmlCall, cleanupCall, configCall>>

\* Any other string: the transcript test, then JSON.parse.
HandleString ==
    /\ shapeCall.pc = "received"
    /\ shapeCall.response.isString
    /\ ~IsHtmlPage(shapeCall.response.text)
    /\ LET t == shapeCall.response.text
       IN  shapeCall' =
             IF IsTextChatlogFormat(t)
             THEN [shapeCall EXCEPT !.pc = "returned",
                                    !.result = Found(t.parsedText)]
             ELSE IF t.jsonValid
                  THEN [shapeCall EXCEPT !.pc = "parsed", !.data = t.json]
                  ELSE [shapeCall EXCEPT !.pc = "returned",
                                         !.result = NullResult]
    /\ UNCHANGED <<pipeline, fetchVars, llmCall, budgetCall, tokenCall, moreUnits,
                   parseCall, htmlCall, cleanupCall, configCall>>

\* The array and wrapper tests, on a body that is not a string or on the
\* value JSON.parse returned.
Extract ==
    /\ \/ shapeCall.pc = "received" /\ ~shapeCall.response.isString
       \/ shapeCall.pc = "parsed"
    /\ shapeCall' = [shapeCall EXCEPT
                       !.pc = "extracted",
                       !.messages = ExtractMessages(shapeCall.data)]
    /\ UNCHANGED <<pipeline, fetchVars, llmCall, budgetCall, tokenCall, moreUnits,
                   parseCall, htmlCall, cleanupCall, configCall>>

\* The standard format and the filter of empty messages, and the return.
ReturnStandard ==
    /\ shapeCall.pc = "extracted"
    /\ shapeCall' = [shapeCall EXCEPT
                       !.pc = "returned",
                       !.result = Found(StandardMessages(shapeCall.messages))]
    /\ UNCHANGED <<pipeline, fetchVars, llmCall, budgetCall, tokenCall, moreUnits,
                   parseCall, htmlCall, cleanupCall, configCall>>

ShapeNext ==
    \/ HandleHtmlPage
    \/ HandleString
    \/ Extract
    \/ ReturnStandard

ShapeSpec == ShapeInit /\ [][ShapeNext]_vars

\* ------------------------------------------------- the scheduler's registry
\* The scheduler with its registry and cron jobs, the task store's toggle and
\* delete, and the runs the cron jobs start: tasks of one room that is read
\* from the local chatlog file.
SchedInit ==
    /\ PipelineInit
    /\ taskRooms = <<1>>
    /\ chatlogUrl = FALSE
    /\ remote = {}
    /\ cacheFile = <<[chatroom |-> 1, count |-> 1]>>
    /\ llmDown = {}
    /\ FetchIdle
    /\ LlmIdle
    /\ BudgetIdle
    /\ TokenIdle
    /\ ParseIdle
    /\ ShapeIdle
    /\ HtmlIdle
    /\ CleanupIdle
    /\ ConfigIdle
    /\ KimiIdle
    /\ StoreIdle
    /\ \E sch \in [Tasks -> Schedules] :
         sched = [IdleSched EXCEPT !.pc = "live", !.schedule = sch]

\* What an action of the registry leaves alone.
SchedFrame ==
    UNCHANGED <<env, storeOk, fetchVars, llmCall, budgetCall, tokenCall,
                parseCall, shapeCall, htmlCall, cleanupCall, configCall,
                kimiCall, storeCall>>

\* TaskScheduler.start: scheduleSystemTasks and loadExistingTasks.
StartScheduler ==
    /\ sched.pc = "live"
    /\ ~isStarted
    /\ Len(sched.jobs) + MaxTasks <= MaxJobs
    /\ isStarted' = TRUE
    /\ sched' = [LoadExistingTasks(sched, dbTasks, 1) EXCEPT !.last = NoCall]
    /\ tasks' = Registered(sched')
    /\ UNCHANGED <<runningTasks, dbTasks, progress, reports, nextReportId, runs,
                   nextRun, dropped>>
    /\ SchedFrame

\* TaskScheduler.stop: every job stopped, the Map and the running set
\* cleared.
StopScheduler ==
    /\ sched.pc = "live"
    /\ isStarted
    /\ sched' = [sched EXCEPT
                    !.jobs = [j \in 1..Len(sched.jobs) |->
                                 IF \E t \in Tasks : sched.entry[t] = j
                                 THEN [sched.jobs[j] EXCEPT !.started = FALSE]
                                 ELSE sched.jobs[j]],
                    !.entry = [t \in Tasks |-> 0],
                    !.last = NoCall]
    /\ tasks' = {}
    /\ runningTasks' = {}
    /\ isStarted' = FALSE
    /\ UNCHANGED <<dbTasks, progress, reports, nextReportId, runs, nextRun,
                   dropped>>
    /\ SchedFrame

\* TaskScheduler.addTask(taskId, scheduleTime, executionFunction) with the
\* execution function registerTask passes.
AddTask(t) ==
    /\ sched.pc = "live"
    /\ Len(sched.jobs) < MaxJobs
    /\ \E sch \in {x \in Schedules : x.given} :
         sched' = [AddTaskIn(sched, t, sch) EXCEPT
                     !.last = [op |-> "addTask", task |-> t,
                               returned |-> sch.valid,
                               hadEntry |-> sched.entry[t] # 0,
                               oldJob |-> sched.entry[t]]]
    /\ tasks' = Registered(sched')
    /\ UNCHANGED <<isStarted, runningTasks, dbTasks, progress, reports,
                   nextReportId, runs, nextRun, dropped>>
    /\ SchedFrame

\* TaskScheduler.removeTask(taskId).
RemoveTask(t) ==
    /\ sched.pc = "live"
    /\ sched' = [RemoveTaskIn(sched, t) EXCEPT
                   !.last = [op |-> "removeTask", task |-> t,
                             returned |-> sched.entry[t] # 0,
                             hadEntry |-> sched.entry[t] # 0,
                             oldJob |-> sched.entry[t]]]
    /\ tasks' = Registered(sched')
    /\ UNCHANGED <<isStarted, runningTasks, dbTasks, progress, reports,
                   nextReportId, runs, nextRun, dropped>>
    /\ SchedFrame

\* TaskScheduler.registerTask(task) for a task object with id t: the result
\* of addTask is not looked at.
RegisterTask(t) ==
    /\ sched.pc = "live"
    /\ Len(sched.jobs) < MaxJobs
    /\ \E sch \in Schedules :
         sched' = [(IF HasCronExpr(sch) THEN AddTaskIn(sched, t, sch) ELSE sched)
                   EXCEPT !.last = [op |-> "registerTask", task |-> t,
                                    returned |-> HasCronExpr(sch),
                                    hadEntry |-> sched.entry[t] # 0,
                                    oldJob |-> sched.entry[t]]]
    /\ tasks' = Registered(sched')
    /\ UNCHANGED <<isStarted, runningTasks, dbTasks, progress, reports,
                   nextReportId, runs, nextRun, dropped>>
    /\ SchedFrame

\* A started cron job matches the clock and calls executeTask; a yearly job
\* matches once in a year.
JobFire(j) ==
    /\ sched.pc = "live"
    /\ j \in 1..Len(sched.jobs)
    /\ sched.jobs[j].started
    /\ sched.jobs[j].yearly => sched.jobs[j].firedYear < sched.year
    /\ LET t == sched.jobs[j].task
       IN  /\ sched' = [sched EXCEPT
                           !.jobs[j].firedYear = sched.year,
                           !.jobs[j].fires =
                               IF sched.jobs[j].yearly THEN @ + 1 ELSE @,
                           !.last = NoCall,
                           !.offRuns =
                               IF    ~IsRunning(t)
                                  /\ (   t \notin dbTasks
                                      \/ sched.status[t] = "disabled")
                               THEN @ \cup {nextRun} ELSE @]
           /\ IF IsRunning(t)
              THEN /\ dropped[t] < MaxDrops
                   /\ dropped' = [dropped EXCEPT ![t] = @ + 1]
                   /\ UNCHANGED <<isStarted, tasks, runningTasks, dbTasks,
                                  progress, storeOk, reports, nextReportId,
                                  runs, nextRun>>
              ELSE /\ nextRun <= MaxRuns
                   /\ nextRun' = nextRun + 1
                   /\ RunTaskProcessBody(nextRun, t, "timer")
                   /\ UNCHANGED <<isStarted, tasks, dbTasks, storeOk, reports,
                                  nextReportId, dropped>>
    /\ UNCHANGED <<env, fetchVars, llmCall, budgetCall, tokenCall, parseCall,
                   shapeCall, htmlCall, cleanupCall, configCall, kimiCall,
                   storeCall>>

\* A year passes (seen only by a started yearly job that has fired).
NewYear ==
    /\ sched.pc = "live"
    /\ sched.year < MaxYears
    /\ \E j \in 1..Len(sched.jobs) :
          /\ sched.jobs[j].started
          /\ sched.jobs[j].yearly
          /\ sched.jobs[j].firedYear = sched.year
    /\ sched' = [sched EXCEPT !.year = @ + 1,
                              !.last = NoCall]
    /\ UNCHANGED pipeline
    /\ SchedFrame

\* POST /tasks/:id/toggle: the status changes in the store; the scheduler is
\* not told.
ToggleTask(t) ==
    /\ sched.pc = "live"
    /\ t \in dbTasks
    /\ sched' = [sched EXCEPT
                   !.status[t] = IF @ = "enabled" THEN "disabled" ELSE "enabled",
                   !.last = NoCall]
    /\ UNCHANGED pipeline
    /\ SchedFrame

SchedNext ==
    \/ StartScheduler
    \/ StopScheduler
    \/ NewYear
    \/ \E t \in Tasks : AddTask(t)
    \/ \E t \in Tasks : RemoveTask(t)
    \/ \E t \in Tasks : RegisterTask(t)
    \/ \E t \in Tasks : ToggleTask(t)
    \/ \E t \in Tasks : DeleteTask(t)
    \/ \E j \in 1..MaxJobs : JobFire(j)
    \/ \E r \in RunIds : Gathered(r)
    \/ \E r \in RunIds : AnalyzeRoom(r)
    \/ \E r \in RunIds : ReportRoom(r)
    \/ \E r \in RunIds : Finish(r)

SchedSpec == SchedInit /\ [][SchedNext]_vars

\* ---------------------------------------------------------- callKimiAPI
\* One callKimiAPI call up to its request, for a prompt of a given
\* estimated size.
KimiInit ==
    /\ PipelineInit
    /\ EnvFixed
    /\ FetchIdle
    /\ LlmIdle
    /\ BudgetIdle
    /\ TokenIdle
    /\ ParseIdle
    /\ ShapeIdle
    /\ HtmlIdle
    /\ CleanupIdle
    /\ ConfigIdle
    /\ SchedIdle
    /\ StoreIdle
    /\ \E m \in KimiModels, k \in BOOLEAN, n \in InputSizes :
         kimiCall = [IdleKimiCall EXCEPT !.pc = "called", !.model = m,
                                         !.hasKey = k, !.inputTokens = n]

\* The key test and the model name.
KimiModelStep ==
    /\ kimiCall.pc = "called"
    /\ kimiCall' =
         IF ~kimiCall.hasKey THEN [kimiCall EXCEPT !.pc = "threw"]
         ELSE [kimiCall EXCEPT !.pc = "named",
                               !.modelName = KimiModelName(kimiCall.model)]
    /\ UNCHANGED <<pipeline, fetchVars, llmCall, budgetCall, tokenCall,
                   parseCall, shapeCall, htmlCall, cleanupCall, configCall,
                   sched, storeCall>>

\* max_tokens is computed and the request is sent.
KimiRequest ==
    /\ kimiCall.pc = "named"
    /\ kimiCall' = [kimiCall EXCEPT
                      !.pc = "sent",
                      !.maxTokens = KimiMaxTokens(kimiCall.modelName,
                                                  kimiCall.inputTokens)]
    /\ UNCHANGED <<pipeline, fetchVars, llmCall, budgetCall, tokenCall,
                   parseCall, shapeCall, htmlCall, cleanupCall, configCall,
                   sched, storeCall>>

KimiNext ==
    \/ KimiModelStep
    \/ KimiRequest

KimiSpec == KimiInit /\ [][KimiNext]_vars

\* ------------------------------------------------------ config.json writers
\* After the construction of DatabaseManager (loadData) over the files of an
\* earlier run: one task, no report, the default templates.
StoreInit ==
    /\ PipelineInit
    /\ EnvFixed
    /\ FetchIdle
    /\ LlmIdle
    /\ BudgetIdle
    /\ TokenIdle
    /\ ParseIdle
    /\ ShapeIdle
    /\ HtmlIdle
    /\ CleanupIdle
    /\ ConfigIdle
    /\ SchedIdle
    /\ KimiIdle
    /\ \E exists \in BOOLEAN,
          file \in [nextTaskId : {Undefined, Num(2)}, nextReportId : {Num(1)},
                    nextTemplateId : {Undefined, Num(DefaultTemplates + 1)},
                    chatlogUrl : {Undefined, Num(1)}] :
         storeCall =
             LoadData([IdleStoreCall EXCEPT
                          !.pc = "live", !.exists = exists, !.file = file,
                          !.maxTaskId = 1,
                          !.maxTemplateId = DefaultTemplates])

StoreFrame ==
    UNCHANGED <<pipeline, fetchVars, llmCall, budgetCall, tokenCall, parseCall,
                shapeCall, htmlCall, cleanupCall, configCall, sched, kimiCall>>

\* POST /settings: saveConfig(req.body), then setFirstRunFlag(false), which
\* loads the file and saves it again.
PostSettings(url) ==
    /\ storeCall.pc = "live"
    /\ LET first  == SaveConfigOn(storeCall.file, SettingsBody(url))
           second == SaveConfigOn(first, first)
       IN  storeCall' = [storeCall EXCEPT !.file = second,
                                          !.savedUrl = Num(url),
                                          !.last = "saveConfig"]
    /\ StoreFrame

\* DatabaseManager.createTask: nextTaskId++, push, saveData.
StoreCreateTask ==
    /\ storeCall.pc = "live"
    /\ storeCall.config.nextTaskId.n < MaxIds
    /\ LET id == storeCall.config.nextTaskId.n
       IN  storeCall' =
             [SaveData([storeCall EXCEPT
                           !.config.nextTaskId = Num(id + 1),
                           !.maxTaskId = Max(@, id)])
                 EXCEPT !.last = "createTask"]
    /\ StoreFrame

\* DatabaseManager.createReport: nextReportId++, push, saveData.
StoreCreateReport ==
    /\ storeCall.pc = "live"
    /\ storeCall.config.nextReportId.n < MaxIds
    /\ LET id == storeCall.config.nextReportId.n
       IN  storeCall' =
             [SaveData([storeCall EXCEPT
                           !.config.nextReportId = Num(id + 1),
                           !.maxReportId = Max(@, id)])
                 EXCEPT !.last = "createReport"]
    /\ StoreFrame

\* DatabaseManager.updateTaskProgress on a stored task: saveData.
StoreUpdateTaskProgress ==
    /\ storeCall.pc = "live"
    /\ storeCall.maxTaskId > 0
    /\ storeCall' = [SaveData(storeCall) EXCEPT !.last = "updateTaskProgress"]
    /\ StoreFrame

\* The process starts again: a new DatabaseManager loads the files.
Restart ==
    /\ storeCall.pc = "live"
    /\ storeCall' = [LoadData(storeCall) EXCEPT !.last = "loadData"]
    /\ StoreFrame

StoreNext ==
    \/ \E url \in {1, 2} : PostSettings(url)
    \/ StoreCreateTask
    \/ StoreCreateReport
    \/ StoreUpdateTaskProgress
    \/ Restart

StoreSpec == StoreInit /\ [][StoreNext]_vars

\* --------------------------------- the messages one run hands to analysis
\* The data acquisition of runTaskProcess for a task of one room: the live
\* fetch with its filter, then the fallback to the local cache.
GatherInit ==
    /\ PipelineInit
    /\ EnvFixed
    /\ UnitsIdle
    /\ LlmIdle
    /\ BudgetIdle
    /\ TokenIdle
    /\ clock \in Clocks
    /\ timeRange \in GatherRanges
    /\ rawMsgs \in MsgSeqs
    /\ \E c \in CacheSeqs : fetchCall = [IdleFetch EXCEPT !.cache = c]

GatherFrame ==
    UNCHANGED <<pipeline, clock, timeRange, rawMsgs, llmCall, budgetCall,
                tokenCall, units>>

\* No chatlogUrl is configured: the loop over the rooms is skipped.
NoChatlogUrl ==
    /\ fetchCall.pc = "idle"
    /\ fetchCall' = [fetchCall EXCEPT !.pc = "failed"]
    /\ GatherFrame

\* fetchChatlogFromExternal throws: the catch of the room logs the error.
FetchThrows ==
    /\ fetchCall.pc = "requested"
    /\ fetchCall' = [fetchCall EXCEPT !.pc = "failed"]
    /\ GatherFrame

\* The end of the acquisition: the filtered messages of the live fetch when
\* there are any, else the cached logs of the room as they are.
GatherMessages ==
    /\ fetchCall.pc \in {"filtered", "failed"}
    /\ fetchCall' =
         IF Len(fetchCall.kept) > 0
         THEN [fetchCall EXCEPT !.pc = "gathered",
                                !.analyzed = fetchCall.kept,
                                !.source = "live"]
         ELSE IF Len(fetchCall.cache) > 0
         THEN [fetchCall EXCEPT !.pc = "gathered",
                                !.analyzed = fetchCall.cache,
                                !.source = "cache"]
         ELSE [fetchCall EXCEPT !.pc = "gathered"]
    /\ GatherFrame

GatherNext ==
    \/ FetchRequest
    \/ Tick
    \/ FetchResponse
    \/ NoChatlogUrl
    \/ FetchThrows
    \/ GatherMessages

GatherSpec == GatherInit /\ [][GatherNext]_vars

\* ================================================================ claims
\* Frame r holds an invocation of runTaskProcess that has not ended.
RunActive(r) == runs[r].pc \notin {"idle", "done"}

\* Frame r is the only invocation made so far.
OnlyRun(r) == \A q \in RunIds \ {r} : runs[q].pc = "idle"

\* Frame r ended on the no-data exit.
NoDataRun(r) ==
    /\ runs[r].pc = "done"
    /\ reports[r] # <<>>
    /\ reports[r][1].call = 0

\* The place of room x in the task's room list (0 when it is not listed).
IndexOf(seq, x) ==
    IF x \in Range(seq) THEN CHOOSE k \in 1..Len(seq) : seq[k] = x ELSE 0

\* The records of frame r that call c of generateChatroomReport pushed.
RecordsOfCall(r, c) == {k \in 1..Len(reports[r]) : reports[r][k].call = c}

\* C1: an invocation of the run entry point for a task (timer fire,
\* executeTaskNow, execute endpoint) while a run of that task has not ended is
\* a no-op: never two pipeline executions of one task in flight, never two
\* sets of reports from overlapping invocations.
C1_OneExecutionAtATime ==
    \A r, q \in RunIds :
        (r # q /\ RunActive(r) /\ RunActive(q)) => runs[r].task # runs[q].task

\* C2: a timer fire for a task in the running set starts no pipeline run and
\* changes nothing but the count of skipped fires; it is not queued: the step
\* in which a run ends starts no run.
C2_BusyFireIsDropped ==
    [][ /\ \A r \in RunIds :
              (runs[r].pc = "idle" /\ runs'[r].kind = "timer")
                  => runs'[r].task \notin runningTasks
        /\ dropped' # dropped
              => /\ \E t \in Tasks : t \in runningTasks /\ dropped'[t] # dropped[t]
                 /\ UNCHANGED <<runs, reports, progress, runningTasks, nextRun,
                                nextReportId>>
        /\ \A r \in RunIds :
              (RunActive(r) /\ runs'[r].pc = "done")
                  => \A q \in RunIds : runs[q].pc = "idle" => runs'[q].pc = "idle"
      ]_vars

\* C2 witness: a fire was skipped while run 1 was in flight; run 1 has ended,
\* the task is out of the running set and no second run exists.
C2_Witness ==
    /\ dropped[1] = 1
    /\ runs[1].kind = "timer" /\ runs[1].pc = "done"
    /\ 1 \notin runningTasks
    /\ runs[2].pc = "idle"

C4_LlmFailureMakesFailedReport ==
    \A r \in RunIds :
        LET f == runs[r]
            n == Len(f.chatlogs)
            k == Cardinality({c \in 1..n : f.chatlogs[c].chatroom \in llmDown})
        IN  ( /\ f.overall # "none"
              /\ \A c \in 1..n : f.chatlogs[c].count > 0
              /\ f.fileErrs = 0 /\ storeOk
              /\ 0 < k /\ k < n )
            => /\ Len(reports[r]) = n
               /\ CountStatus(reports[r], "failed") = k
               /\ CountStatus(reports[r], "success") = n - k
               /\ f.overall = "partial"

\* C5: every generateChatroomReport call leaves exactly one report record:
\* success with a file reference when the file write and the record creation
\* both succeeded, failed otherwise.
C5_OneRecordPerCall ==
    \A r \in RunIds :
        \A c \in 1..Len(runs[r].results) :
            /\ Cardinality(RecordsOfCall(r, c)) = 1
            /\ \A k \in RecordsOfCall(r, c) :
                 reports[r][k].status = runs[r].results[c]
                    /\ (reports[r][k].status = "success" <=> reports[r][k].report_file)

\* C6: when a run over k >= 1 rooms has computed its aggregate, the success
\* and failure counts add up to k; the aggregate is success iff no room
\* failed, failed iff none succeeded, partial otherwise; and the progress
\* status it writes is completed iff the aggregate is success, failed
\* otherwise.
C6_AggregateStatus ==
    \A r \in RunIds :
        LET f == runs[r]
            k == Len(f.chatlogs)
        IN  f.overall # "none"
            => /\ k >= 1
               /\ f.succ + f.fail = k
               /\ f.succ = CountOf(f.results, "success")
               /\ f.fail = CountOf(f.results, "failed")
               /\ f.overall = "success" <=> f.fail = 0
               /\ f.overall = "failed"  <=> f.succ = 0
               /\ f.overall = "partial" <=> (f.succ > 0 /\ f.fail > 0)
               /\ f.wrote = "completed" <=> f.overall = "success"
               /\ f.wrote = "failed"    <=> f.overall # "success"
               /\ (f.kind # "endpoint" /\ OnlyRun(r))
                     => progress[f.task] = f.wrote

\* C6 witness: a finished run with one room reported and one failed.
C6_Witness ==
    \E r \in RunIds :
        /\ runs[r].pc = "done"
        /\ runs[r].overall = "partial"
        /\ runs[r].succ = 1 /\ runs[r].fail = 1

\* C7: a run that found no data in the fetch and in the cache leaves exactly
\* one failed report without a room name, makes no provider call, and has set
\* the progress status to failed when it stops.
C7_NoDataSetsFailed ==
    \A r \in RunIds :
        (NoDataRun(r) /\ OnlyRun(r) /\ runs[r].kind # "endpoint")
            => /\ Len(reports[r]) = 1
               /\ reports[r][1].status = "failed"
               /\ reports[r][1].chatroom_name = NoRoom
               /\ runs[r].llm = <<>>
               /\ progress[runs[r].task] = "failed"

\* C8: a run that set the progress status to analyzing has written completed
\* or failed when it has ended (here: with the store taking every write).
C8_AnalyzingIsResolved ==
    \A r \in RunIds :
        (runs[r].pc = "done" /\ OnlyRun(r) /\ runs[r].kind # "endpoint"
            /\ runs[r].task \in dbTasks /\ storeOk)
            => progress[runs[r].task] \in {"completed", "failed"}

\* C9: a failure or an exception in the analysis or the report of room i never
\* keeps the later rooms from being processed: the loop is at room i only with
\* rooms 1..i-1 all analysed and reported, and it is left only with every room
\* analysed and a report record of every room.
C9_RoomFailuresIsolated ==
    \A r \in RunIds :
        LET f == runs[r]
            n == Len(f.chatlogs)
        IN  /\ f.pc = "analyze" => Len(f.llm) = f.i - 1 /\ Len(f.results) = f.i - 1
            /\ f.pc = "report"  => Len(f.llm) = f.i /\ Len(f.results) = f.i - 1
            /\ f.pc = "sleep"   => Len(f.results) = f.i /\ f.i < n
            /\ (f.pc = "finish" \/ f.overall # "none")
                  => /\ Len(f.llm) = n /\ Len(f.results) = n
                     /\ \A c \in 1..n :
                          \E k \in RecordsOfCall(r, c) :
                              reports[r][k].chatroom_name = f.chatlogs[c].chatroom

\* C9 witness: the report of room 1 threw out of generateChatroomReport (its
\* success record and its failed record were both pushed and not saved), and
\* room 2 was still analysed and reported.
C9_Witness ==
    \E r \in RunIds :
        /\ runs[r].pc = "done"
        /\ Len(runs[r].chatlogs) = 2
        /\ Cardinality(RecordsOfCall(r, 1)) = 2
        /\ Len(runs[r].llm) = 2
        /\ RecordsOfCall(r, 2) # {}

\* C10: rooms are processed one at a time in the order the task lists them,
\* also when the data come from the cache; the provider call and the report
\* of a room are over before the next room starts, and the delay comes
\* between two rooms only.
C10_TaskOrder ==
    \A r \in RunIds :
        LET f == runs[r]
        IN  /\ f.pc \in {"analyze", "report", "sleep", "finish"}
               => \A a, b \in 1..Len(f.chatlogs) :
                    a < b => IndexOf(taskRooms, f.chatlogs[a].chatroom)
                                < IndexOf(taskRooms, f.chatlogs[b].chatroom)
            /\ \A e \in 1..Len(f.log) :
                 LET c == (e + 2) \div 3
                 IN  /\ e % 3 = 1 => f.log[e] = [ev |-> "llm",
                                                 room |-> f.chatlogs[c].chatroom]
                     /\ e % 3 = 2 => f.log[e] = [ev |-> "report",
                                                 room |-> f.chatlogs[c].chatroom]
                     /\ e % 3 = 0 => f.log[e].ev = "sleep" /\ c < Len(f.chatlogs)

\* C11: within one fetch, the window generateTimeParam used for the request
\* and the window the local filter uses have the same start and end instants,
\* whatever the time range and however far the clock moved in between.
C11_OneWindowPerRun ==
    (fetchCall.pc = "filtered" /\ fetchCall.timeParam # <<0, 0>>
        /\ ~IsAll(timeRange))
        => /\ fetchCall.filterWindow = fetchCall.window
           /\ fetchCall.timeParam = <<FormatDate(fetchCall.filterWindow.start),
                                      FormatDate(fetchCall.filterWindow.end)>>

\* C12: rooms are acquired independently: a room of the task whose live fetch
\* failed or gave no message is taken from the local file when the file has
\* messages of it, whether or not the live fetch of other rooms succeeded.
C12_PerRoomFallback ==
    \A r \in RunIds :
        runs[r].pc \in {"analyze", "report", "sleep", "finish"}
            => \A x \in Range(taskRooms) :
                 (x \notin remote
                     /\ \E k \in 1..Len(cacheFile) :
                           cacheFile[k].chatroom = x /\ cacheFile[k].count > 0)
                    => \E c \in 1..Len(runs[r].chatlogs) :
                         runs[r].chatlogs[c].chatroom = x

\* The passes of the try block made so far, and the failure kinds.
AttemptEvents == {e \in 1..Len(llmCall.events) : llmCall.events[e].ev = "attempt"}

FailureKinds ==
    {"nokey", "unsupported", "401", "429", "413", "timeout", "unreachable",
     "malformed"}

\* C13: an analyze call makes at most 2 provider calls; the second one only
\* after the first failed and after a wait of attempt * 2000 ms; a successful
\* attempt ends the loop; no wait follows the last failed attempt.
C13_RetryPolicy ==
    LET ev == llmCall.events
    IN  /\ llmCall.requests <= 2
        /\ Cardinality(AttemptEvents) <= 2
        /\ \A e \in 1..Len(ev) :
             /\ (ev[e].ev = "attempt" /\ ev[e].n > 1)
                   => /\ e >= 3
                      /\ ev[e - 2].ev = "attempt" /\ ev[e - 2].n = ev[e].n - 1
                      /\ ev[e - 2].outcome # "ok"
                      /\ ev[e - 1].ev = "wait"
                      /\ ev[e - 1].ms = (ev[e].n - 1) * 2000
             /\ (ev[e].ev = "attempt" /\ ev[e].outcome = "ok")
                   => e = Len(ev) /\ llmCall.pc = "returned"
             /\ ev[e].ev = "wait"
                   => /\ e > 1 /\ ev[e - 1].ev = "attempt"
                      /\ ev[e - 1].outcome # "ok"
                      /\ ev[e].n < 2

\* C13 witness: both attempts failed, with one wait of 2000 ms between them
\* and none after the second.
C13_Witness ==
    /\ llmCall.pc = "returned"
    /\ Len(llmCall.events) = 3
    /\ llmCall.events[2].ev = "wait" /\ llmCall.events[2].ms = 2000
    /\ llmCall.events[3].ev = "attempt" /\ llmCall.events[3].outcome = "429"
    /\ llmCall.requests = 2

\* C14: every kind of gateway failure is retried up to the same bound, and
\* when all attempts failed analyze does not throw but returns the
\* synthesized failure text with the message of the last error.
C14_FailuresRetriedThenReported ==
    LET ev   == llmCall.events
        last == ev[Len(ev)]
    IN  /\ \A e \in AttemptEvents : ev[e].outcome \in FailureKinds \cup {"ok"}
        /\ (llmCall.pc = "returned" /\ last.outcome # "ok")
              => /\ last.ev = "attempt" /\ last.outcome \in FailureKinds
                 /\ Cardinality(AttemptEvents) = 2
                 /\ \A e \in AttemptEvents : ev[e].outcome # "ok"
                 /\ ~llmCall.returned.threw
                 /\ llmCall.returned.text = "failure"
                 /\ llmCall.returned.error = last.outcome
        /\ (llmCall.pc = "returned" /\ last.outcome = "ok")
              => /\ ~llmCall.returned.threw
                 /\ llmCall.returned.text = "content"

\* C14 witness: an invalid key answer, then a timeout; analyze returned the
\* failure text of the timeout.
C14_Witness ==
    /\ llmCall.pc = "returned"
    /\ Len(llmCall.events) = 3
    /\ llmCall.events[1].outcome = "401"
    /\ llmCall.events[3].outcome = "timeout"
    /\ llmCall.returned = [threw |-> FALSE, text |-> "failure", error |-> "timeout"]

\* C17: the estimate of a text is ceil(1.5 * c + w + 0.5 * s), with c its CJK
\* characters, w its words of Latin letters and s its characters that are
\* neither CJK nor Latin letters; it is 0 for the empty text.
C17_EstimateFormula ==
    tokenCall.pc = "done"
        => LET text == tokenCall.text
               c    == Cardinality({k \in 1..Len(text) : text[k] = "cjk"})
               w    == Cardinality({k \in 1..Len(text) :
                          text[k] = "lat" /\ (k = 1 \/ text[k - 1] # "lat")})
               sy   == Cardinality({k \in 1..Len(text) : text[k] = "oth"})
           IN  tokenCall.tokens = (3 * c + 2 * w + sy + 1) \div 2

\* The instant the sender of message m meant, and whether it lies in window w.
MeantInWindow(m, w) == NotAfter(w.start, m.val.at) /\ NotAfter(m.val.at, w.end)

\* C18: for a window other than all, a message sent at instant t is kept
\* exactly when start <= t <= end, whether t arrives as 10-digit epoch
\* seconds, as epoch milliseconds or as a parseable date string.
C18_SameDecisionAllForms ==
    (fetchCall.pc = "filtered" /\ ~IsAll(timeRange))
        => \A k \in 1..Len(fetchCall.messages) :
             LET m == fetchCall.messages[k]
             IN  m.field # "none"
                    => (m \in Range(fetchCall.kept)
                           <=> MeantInWindow(m, fetchCall.filterWindow))

\* s is t with some of its elements left out, the order kept.
RECURSIVE IsSubsequence(_, _)
IsSubsequence(s, t) ==
    IF s = <<>> THEN TRUE
    ELSE IF t = <<>> THEN FALSE
    ELSE IF Head(s) = Head(t) THEN IsSubsequence(Tail(s), Tail(t))
    ELSE IsSubsequence(s, Tail(t))

\* C19: for a window other than all, the filter partitions its input: kept +
\* invalid + out of range is the number of input messages, the kept messages
\* are a subsequence of the input in its order, and no message without a
\* usable time is kept.
C19_FilterPartitions ==
    (fetchCall.pc = "filtered" /\ ~IsAll(timeRange))
        => /\ Len(fetchCall.kept) + fetchCall.invalidTimeCount
                 + fetchCall.outOfRangeCount = Len(fetchCall.messages)
           /\ IsSubsequence(fetchCall.kept, fetchCall.messages)
           /\ \A k \in 1..Len(fetchCall.kept) :
                /\ fetchCall.kept[k].field \in {"timestamp", "time", "createTime"}
                /\ fetchCall.kept[k].field = "timestamp"
                      => fetchCall.kept[k].val.kind = "num"

\* C19 witness: of two messages under a seven day window, the first has no
\* time field and is counted as invalid, the second is kept.
C19_Witness ==
    /\ fetchCall.pc = "filtered"
    /\ timeRange.type = "recent_7d"
    /\ Len(fetchCall.messages) = 2
    /\ fetchCall.messages[1].field = "none"
    /\ fetchCall.kept = <<fetchCall.messages[2]>>
    /\ fetchCall.invalidTimeCount = 1
    /\ fetchCall.outOfRangeCount = 0

\* C20: for a custom range the wire string is "<start>~<end>" of the dates,
\* be they in start_date/end_date or in the legacy startDate/endDate; when
\* neither pair is complete it is the wire string of the last seven days.
C20_LegacyFieldsEquivalent ==
    (fetchCall.pc = "requested" /\ fetchCall.ticks = 0
        /\ timeRange.type = "custom")
        => LET tr == timeRange
           IN  /\ (tr.start_date # NoDate /\ tr.end_date # NoDate)
                     => fetchCall.timeParam = <<tr.start_date, tr.end_date>>
               /\ ( /\ ~(tr.start_date # NoDate /\ tr.end_date # NoDate)
                    /\ tr.startDate # NoDate /\ tr.endDate # NoDate)
                     => fetchCall.timeParam = <<tr.startDate, tr.endDate>>
               /\ ( /\ ~(tr.start_date # NoDate /\ tr.end_date # NoDate)
                    /\ ~(tr.startDate # NoDate /\ tr.endDate # NoDate))
                     => fetchCall.timeParam =
                          <<FormatDate(MinusDays(clock, 7)), FormatDate(clock)>>

\* C20 witness: a custom range with the legacy fields only was resolved to
\* 2025-07-01~2025-07-18.
C20_Witness ==
    /\ fetchCall.pc = "requested"
    /\ timeRange = Custom(NoDate, NoDate, FirstDay, LastDay)
    /\ fetchCall.timeParam = <<FirstDay, LastDay>>

\* C15: whenever the full prompt is over maxInputTokens, the prompt that
\* optimizePromptForTokenLimit returns is estimated at maxInputTokens at
\* most, for every system prompt and all sizes of the rooms' blocks, the
\* single cut block included.
C15_FittedPromptWithinLimit ==
    budgetCall.pc = "fitted"
        => budgetCall.promptTokens <= budgetCall.maxInputTokens

\* The estimate of block b, and of a sequence of blocks taken one by one.
TokensOfBlock(b) == (b.header + b.n * b.each + 1) \div 2

RECURSIVE SumTokens(_)
SumTokens(blocks) ==
    IF blocks = <<>> THEN 0
    ELSE TokensOfBlock(Head(blocks)) + SumTokens(Tail(blocks))

\* C16: blocks are considered in descending density messageCount / tokens;
\* a block is kept whole or dropped, the kept ones sum up to the available
\* budget at most and a block is dropped only when it does not fit any more;
\* only when no block fits alone a single block is kept: the densest one,
\* cut to its first max(10, floor(messageCount * available / tokens * 0.8))
\* messages.
C16_BlocksAtomic ==
    budgetCall.pc = "fitted"
        => LET c    == budgetCall
               all  == c.formatted
               srt  == c.sorted
               opt  == c.optimized
               fitsAlone == \E k \in 1..Len(all) :
                               TokensOfBlock(all[k]) <= c.available
               keptBefore(k) ==
                   SelectSeq(SubSeq(srt, 1, k - 1), LAMBDA b : b \in Range(opt))
               cut  == (srt[1].n * c.available * 8)
                          \div (TokensOfBlock(srt[1]) * 10)
           IN  /\ Len(srt) = Len(all) /\ Range(srt) = Range(all)
               /\ \A i, j \in 1..Len(srt) :
                    i < j => srt[i].n * TokensOfBlock(srt[j])
                                >= srt[j].n * TokensOfBlock(srt[i])
               /\ fitsAlone
                    => /\ Range(opt) \subseteq Range(all)
                       /\ IsSubsequence(opt, srt)
                       /\ SumTokens(opt) <= c.available
                       /\ \A k \in 1..Len(srt) :
                            srt[k] \notin Range(opt)
                               => SumTokens(keptBefore(k)) + TokensOfBlock(srt[k])
                                     > c.available
               /\ ~fitsAlone
                    => /\ Len(opt) = 1
                       /\ opt[1].room = srt[1].room
                       /\ opt[1].header = srt[1].header
                       /\ opt[1].each = srt[1].each
                       /\ opt[1].n = Min(srt[1].n, Max(10, cut))

\* C16 witness: of three rooms the densest is kept, the next does not fit
\* any more and is dropped, the sparsest still fits and is kept whole.
C16_Witness ==
    /\ budgetCall.pc = "fitted"
    /\ Len(budgetCall.sorted) = 3
    /\ budgetCall.sorted[1].room # 1
    /\ budgetCall.optimized = <<budgetCall.sorted[1], budgetCall.sorted[3]>>
    /\ TokensOfBlock(budgetCall.sorted[2]) <= budgetCall.available

\* C21: for a range of type all, and for an absent range, the wire string is
\* the fixed '2020-01-01~2030-12-31', whatever the clock shows.
C21_AllIsFixedSentinel ==
    (fetchCall.pc = "requested" /\ timeRange.type \in {"null", "all"})
        => fetchCall.timeParam = <<18262, 22279>>

\* C21 witness: an absent range resolved at 23:59:59.500.
C21_Witness ==
    /\ fetchCall.pc = "requested"
    /\ timeRange.type = "null"
    /\ clock = Instant(20285 * DaySeconds - 1, 500)
    /\ fetchCall.timeParam = <<18262, 22279>>

\* The days a range type stands for, as the specification lists them.
DaysOfType(type) ==
    CASE type = "recent_1d"  -> 1
      [] type = "recent_3d"  -> 3
      [] type = "recent_15d" -> 15
      [] type = "recent_30d" -> 30
      [] OTHER               -> 7

\* C22: a recent range of n days (n in 1, 3, 7, 15, 30) resolved at now has
\* the window [now - n days, now] and the wire string of the days of its two
\* ends; a type that is not known resolves like recent_7d.
C22_RecentWindow ==
    (fetchCall.pc = "requested" /\ fetchCall.ticks = 0
        /\ timeRange.type \notin {"null", "all", "custom"})
        => LET n     == DaysOfType(timeRange.type)
               start == [s |-> clock.s - n * 86400, ms |-> clock.ms]
           IN  /\ fetchCall.window = [start |-> start, end |-> clock]
               /\ fetchCall.timeParam = <<start.s \div 86400, clock.s \div 86400>>

\* C22 witness: recent_30d resolved on 2025-07-15 gives 2025-06-15~2025-07-15.
C22_Witness ==
    /\ fetchCall.pc = "requested"
    /\ timeRange.type = "recent_30d"
    /\ fetchCall.timeParam = <<20254, 20284>>

\* The lines of kind header of the parsed text, in order, and the text lines
\* between header line h and the next header line.
HeaderLines == {k \in 1..Len(parseCall.lines) : parseCall.lines[k] = "header"}

TextAfter(h) ==
    {k \in 1..Len(parseCall.lines) :
        /\ k > h /\ parseCall.lines[k] = "text"
        /\ \A j \in HeaderLines : ~(h < j /\ j < k)}

\* C23: the parser returns, in the order of the input, one message for every
\* header line; its content is the non-header lines that follow up to the
\* next header line, and no content line is lost or given to another message.
C23_OneMessagePerHeader ==
    parseCall.pc = "done"
        => LET ms == parseCall.messages
           IN  /\ Len(ms) = Cardinality(HeaderLines)
               /\ \A a, b \in 1..Len(ms) : a < b => ms[a].header < ms[b].header
               /\ \A a \in 1..Len(ms) :
                    /\ ms[a].header \in HeaderLines
                    /\ Range(ms[a].content) = TextAfter(ms[a].header)
                    /\ \A x, y \in 1..Len(ms[a].content) :
                         x < y => ms[a].content[x] < ms[a].content[y]
               /\ \A k \in 1..Len(parseCall.lines) :
                    parseCall.lines[k] = "text"
                       => \E a \in 1..Len(ms) : k \in Range(ms[a].content)

\* The pieces that are HTML tags, a text with a full document in it (the
\* doctype, then the opening and the closing html tag), and the standard
\* report around a text.
TagPieces == {"doctype", "html", "endhtml", "body", "endbody", "div", "tag"}

HasTags(text) == \E k \in 1..Len(text) : text[k] \in TagPieces

HasFullDocument(text) ==
    \E a, b, c \in 1..Len(text) :
        /\ a < b /\ b < c
        /\ text[a] = "doctype" /\ text[b] = "html" /\ text[c] = "endhtml"

InShell(text) ==
    <<"doctype", "ws", "html", "shell", "body", "content", "ws">> \o text
        \o <<"ws", "endcontent", "endbody", "ws", "endhtml">>

\* C24: every cleaned output falls in one of four cases and the report is
\* made accordingly: (1) it begins with a full document: the report is the
\* output; (2) it is an html block holding a full document: the report is
\* what the block holds; (3) it has HTML tags but no full document: the
\* report is the standard shell with the output in its content region;
\* (4) it has no HTML tag: the report is the same shell around the text.
C24_FourCases ==
    htmlCall.pc = "done"
        => LET c == htmlCall.cleanedContent
               r == htmlCall.reportHtml
           IN  /\ (c # <<>> /\ c[1] = "doctype" /\ HasFullDocument(c))
                     => r = c
               /\ (c # <<>> /\ c[1] = "fence" /\ c[Len(c)] = "tick"
                      /\ HasFullDocument(c))
                     => r = Trim(SubSeq(c, 2, Len(c) - 1))
               /\ (HasTags(c) /\ ~HasFullDocument(c)) => r = InShell(c)
               /\ ~HasTags(c) => r = InShell(c)

\* C25: when the model output holds a full document, bare or inside an html
\* block, whatever text precedes and follows it, the report starts with
\* <!DOCTYPE html> and ends with </html>.
C25_ScaffoldingNeverReachesReport ==
    (htmlCall.pc = "done" /\ HasFullDocument(htmlCall.analysisContent))
        => /\ htmlCall.reportHtml # <<>>
           /\ htmlCall.reportHtml[1] = "doctype"
           /\ htmlCall.reportHtml[Len(htmlCall.reportHtml)] = "endhtml"

\* C26: a model output without HTML tags is put in the standard shell: the
\* report starts with <!DOCTYPE html>, ends with </html> and has the text of
\* the output, as it was, once, in its content region.
C26_PlainTextVerbatimInShell ==
    (htmlCall.pc = "done" /\ ~HasTags(htmlCall.analysisContent)
        /\ ~Includes(htmlCall.analysisContent, "fence"))
        => htmlCall.reportHtml = InShell(Trim(htmlCall.analysisContent))

\* C27: after cleanupTaskStatus no task is analyzing: every task that was is
\* not_started, the progress state of every other task is as it was, and the
\* count returned is the number of tasks changed.
C27_CleanupResetsAnalyzing ==
    cleanupCall.pc \in {"returned", "threw"}
        => LET c       == cleanupCall
               changed == {k \in 1..Len(c.stored) : c.tasks[k] # c.stored[k]}
           IN  /\ Len(c.tasks) = Len(c.stored)
               /\ \A k \in 1..Len(c.tasks) :
                    /\ c.tasks[k] # "analyzing"
                    /\ c.stored[k] = "analyzing" => c.tasks[k] = "not_started"
                    /\ c.stored[k] # "analyzing" => c.tasks[k] = c.stored[k]
               /\ c.pc = "returned" => c.returned = Cardinality(changed)

\* C27 witness: of three tasks two were analyzing; they were reset, the
\* completed one was left alone and 2 was returned.
C27_Witness ==
    /\ cleanupCall.pc = "returned"
    /\ cleanupCall.stored = <<"analyzing", "completed", "analyzing">>
    /\ cleanupCall.tasks = <<"not_started", "completed", "not_started">>
    /\ cleanupCall.returned = 2
    /\ cleanupCall.saved


\* C28: a save whose submitted configuration lacks a system field leaves the
\* stored value of that field unchanged, the submitted user fields replace
\* the stored ones, and after the save the three system fields are present
\* and at least 1.
C28_SaveKeepsSystemFields ==
    configCall.pc = "saved" =>
        /\ \A f \in SystemFields :
              (   ~configCall.config[f].defined
               /\ configCall.stored[f].defined
               /\ configCall.stored[f].n >= 1)
              => configCall.written[f] = configCall.stored[f]
        /\ \A f \in UserFields :
              configCall.config[f].defined
              => configCall.written[f] = configCall.config[f]
        /\ \A f \in SystemFields :
              configCall.written[f].defined /\ configCall.written[f].n >= 1


\* The wrapper keys in the order of the claim, and the first of them that
\* holds an array (0 when none does).
WrapperKeys == <<"data", "messages", "records">>

FirstArrayKey(v) ==
    LET holding == {i \in 1..Len(WrapperKeys) : v[WrapperKeys[i]].isArray}
    IN  IF holding = {} THEN 0
        ELSE CHOOSE i \in holding : \A j \in holding : i <= j

Unwrapped(v) ==
    CASE v.type = "array" -> v.items
      [] v.type = "object" /\ FirstArrayKey(v) > 0 ->
            v[WrapperKeys[FirstArrayKey(v)]].items
      [] OTHER -> <<>>

\* The messages the ordered first match of the claim gives for a response:
\* array, wrapped object, transcript text, JSON text, else none.
ShapeMessages(r) ==
    IF ~r.isString THEN StandardMessages(Unwrapped(r.value))
    ELSE IF r.text.timePattern THEN r.text.parsedText
    ELSE IF r.text.jsonValid THEN StandardMessages(Unwrapped(r.text.json))
    ELSE <<>>

CaseForms(alias) ==
    CASE alias = "deepseek" -> {"deepseek", "DeepSeek"}
      [] alias = "gemini"   -> {"gemini", "GEMINI"}
      [] alias = "kimi"     -> {"kimi", "Kimi"}

ProviderOfPrefix(name) ==
    CASE name = "deepseek" -> "deepseek"
      [] name = "gemini"   -> "gemini"
      [] name = "moonshot" -> "kimi"
      [] name = "kimi"     -> "kimi"

DefaultModel(alias) ==
    CASE alias = "deepseek" -> <<"deepseek", "-", "chat">>
      [] alias = "gemini"   -> <<"gemini", "-", "2.5-pro">>
      [] alias = "kimi"     -> <<"moonshot", "-", "v1-8k">>

\* The provider call the claim assigns to a model id: by prefix, by bare
\* alias, else none.
ExpectedCalls(m) ==
    IF    Len(m) >= 2 /\ m[2] = "-"
       /\ m[1] \in {"deepseek", "gemini", "moonshot", "kimi"}
    THEN <<[provider |-> ProviderOfPrefix(m[1]), model |-> m]>>
    ELSE IF Len(m) = 1 /\ \E a \in {"deepseek", "gemini", "kimi"} : m[1] \in CaseForms(a)
    THEN LET a == CHOOSE a \in {"deepseek", "gemini", "kimi"} : m[1] \in CaseForms(a)
         IN  <<[provider |-> a, model |-> DefaultModel(a)]>>
    ELSE <<>>

\* C30: the provider is a function of the model id: the prefixes deepseek-,
\* gemini-, moonshot- and kimi- select their provider with the id as given,
\* the bare aliases in any letter case select the provider with its default
\* model, every other id fails as unsupported with no provider call; an
\* attempt calls at most one provider (exactly one for a supported id) and
\* every attempt of a call goes to the same provider.
C30_DispatchByModelId ==
    LET m == llmCall.llmModel
    IN  /\ \A e \in AttemptEvents :
              LET ev == llmCall.events[e]
              IN  /\ ev.calls = ExpectedCalls(m)
                  /\ Len(ev.calls) <= 1
                  /\ ev.calls = <<>> => ev.outcome = "unsupported" /\ ~ev.sent
                  /\ ev.calls # <<>> => ev.outcome # "unsupported"
                  /\ \A f \in AttemptEvents :
                        llmCall.events[f].calls = ev.calls
        /\ (llmCall.pc = "returned" /\ ExpectedCalls(m) = <<>>)
           => /\ llmCall.returned.error = "unsupported"
              /\ llmCall.requests = 0

\* The alias DeepSeek, failed once and retried: both attempts called the
\* DeepSeek provider with its default model.
C30_Witness ==
    /\ llmCall.pc = "returned"
    /\ llmCall.llmModel = <<"DeepSeek">>
    /\ Cardinality(AttemptEvents) = 2
    /\ \A e \in AttemptEvents :
          llmCall.events[e].calls =
              <<[provider |-> "deepseek", model |-> <<"deepseek", "-", "chat">>]>>


\* The started cron jobs of a task id.
LiveJobs(t) ==
    {j \in 1..Len(sched.jobs) : sched.jobs[j].task = t /\ sched.jobs[j].started}

\* C31: the registry holds at most one entry and one live timer per task
\* id, and a live timer only for a registered id (so no fire starts a run
\* for a removed id); addTask on a registered id has stopped the previous
\* timer and, when it succeeds, holds a new one; removeTask returns true
\* exactly when the id was registered and leaves no entry.
C31_OneTimerPerTask ==
    /\ \A t \in Tasks :
          /\ Cardinality(LiveJobs(t)) <= 1
          /\ LiveJobs(t) = IF sched.entry[t] = 0 THEN {} ELSE {sched.entry[t]}
          /\ t \in tasks <=> sched.entry[t] # 0
    /\ (sched.last.op = "addTask" /\ sched.last.hadEntry)
       => /\ ~sched.jobs[sched.last.oldJob].started
          /\ sched.last.returned
             => /\ sched.entry[sched.last.task] # sched.last.oldJob
                /\ sched.entry[sched.last.task] # 0
    /\ sched.last.op = "removeTask"
       => /\ sched.last.returned = sched.last.hadEntry
          /\ sched.entry[sched.last.task] = 0

\* addTask on a registered id has replaced job 1 by job 2.
C31_Witness ==
    /\ sched.last.op = "addTask"
    /\ sched.last.hadEntry
    /\ sched.last.returned
    /\ Len(sched.jobs) = 2
    /\ ~sched.jobs[1].started
    /\ sched.jobs[2].started
    /\ sched.entry[sched.last.task] = 2


\* C32: registerTask returns true only if the id then has an entry with a
\* started timer; a registration that made no new timer (no schedule could
\* be derived, or cron.schedule threw) returns false and leaves the entry
\* the id had before.
C32_RegisterTaskResult ==
    sched.last.op = "registerTask" =>
        LET t       == sched.last.task
            created == sched.entry[t] # 0 /\ sched.entry[t] # sched.last.oldJob
        IN  /\ sched.last.returned
               => sched.entry[t] # 0 /\ sched.jobs[sched.entry[t]].started
            /\ ~created
               => ~sched.last.returned /\ sched.entry[t] = sched.last.oldJob


\* C33: when a run made through the execute endpoint has finished (the only
\* run of its task, the store taking every write), the progress state of the
\* task is the one the pipeline computed: the state its last write gave
\* (completed only if no room failed), failed when no data was found.
C33_EndpointKeepsPipelineState ==
    \A r \in RunIds :
        (   runs[r].pc = "done" /\ runs[r].kind = "endpoint" /\ OnlyRun(r)
         /\ runs[r].task \in dbTasks /\ storeOk)
        => /\ runs[r].wrote # "none"
              => /\ progress[runs[r].task] = runs[r].wrote
                 /\ progress[runs[r].task] = "completed" <=> runs[r].fail = 0
           /\ NoDataRun(r) => progress[runs[r].task] = "failed"


\* The cap of max_tokens and the context limit of a Moonshot model.
KimiCap(modelName) ==
    CASE modelName[3] = "v1-32k"  -> 4000
      [] modelName[3] = "v1-128k" -> 8000
      [] OTHER                    -> 3000

KimiContext(modelName) ==
    CASE modelName[3] = "v1-32k"  -> 32768
      [] modelName[3] = "v1-128k" -> 128000
      [] OTHER                    -> 8000

\* C34: the max_tokens of every Kimi request is at least 1000 and at most
\* the cap of the model, and the estimated input tokens plus max_tokens do
\* not exceed the context limit of the model.
C34_KimiMaxTokensFits ==
    kimiCall.pc = "sent" =>
        /\ kimiCall.maxTokens >= 1000
        /\ kimiCall.maxTokens <= KimiCap(kimiCall.modelName)
        /\ kimiCall.inputTokens + kimiCall.maxTokens
              <= KimiContext(kimiCall.modelName)


\* The invocations of the execution function of task t that are in flight.
InFlight(t) ==
    {r \in RunIds : runs[r].task = t /\ runs[r].kind = "timer" /\ RunActive(r)}

\* C35: with start, stop, addTask, removeTask, registerTask and timer fires
\* only, at most one invocation of a task's execution function is in flight
\* at any time.
C35_OneInvocationInFlight ==
    \A t \in Tasks : Cardinality(InFlight(t)) <= 1


\* C37: a run that a timer fire started for a task that was disabled or
\* deleted in the store by then does nothing: it is over at once, has
\* written no progress state and has created no report.
C37_OffTaskNotExecuted ==
    \A r \in sched.offRuns :
        /\ runs[r].pc = "done"
        /\ runs[r].wrote = "none"
        /\ reports[r] = <<>>


\* C38: the cron job made for a task of schedule type once fires at most
\* once while the process runs.
C38_OnceFiresOnce ==
    \A j \in 1..Len(sched.jobs) :
        sched.jobs[j].yearly => sched.jobs[j].fires <= 1


\* C36: the two writers of config.json do not overwrite each other with
\* stale data: the chatlogUrl last saved through saveConfig is the one in
\* the file after every later store operation, and the counters last
\* written by the store are the ones in the file after every later
\* saveConfig.
C36_WritersKeepEachOther ==
    /\ storeCall.savedUrl.defined
       => storeCall.file.chatlogUrl = storeCall.savedUrl
    /\ storeCall.stored
       => Counters(storeCall.file) = storeCall.storeIds


\* C39: every message handed to the analysis of a run lies within the run's
\* time window, from the live fetch as from the local cache.
C39_AnalyzedWithinWindow ==
    (fetchCall.pc = "gathered" /\ ~IsAll(timeRange)) =>
        \A k \in 1..Len(fetchCall.analyzed) :
            Classify(fetchCall.analyzed[k], FilterWindow(timeRange, clock))
                = "kept"


\* C40: for a custom range with both dates the local filter keeps every
\* message whose calendar date lies within the inclusive dates of the wire
\* string, also one sent during the end date.
C40_EndDateInclusive ==
    (   fetchCall.pc \in {"filtered", "gathered"}
     /\ Len(fetchCall.messages) > 0
     /\ timeRange.type = "custom") =>
        \A k \in 1..Len(fetchCall.messages) :
            LET t == MessageTime(fetchCall.messages[k])
            IN  (   t.ok
                 /\ fetchCall.timeParam[1] <= FormatDate(t.at)
                 /\ FormatDate(t.at) <= fetchCall.timeParam[2])
                => \E i \in 1..Len(fetchCall.kept) :
                      fetchCall.kept[i] = fetchCall.messages[k]

====
